---- MODULE Spec2Model ----
(***************************************************************************)
(* State-machine model of the alpha engine: the Renderer's render-target   *)
(* redirection and draw path (src/src/renderer.rs), the game's frame       *)
(* (src/src/game.rs, system_render) and the editor's update                *)
(* (src/src/editor.rs, Editor::on_update).                                 *)
(*                                                                         *)
(* Two specifications share the variables:                                 *)
(*   SpecApi  - an arbitrary client of the Renderer's public methods       *)
(*              render_to_texture and draw_rect;                            *)
(*   Spec     - the engine running the Game or the Editor frame by frame,  *)
(*              one action per statement of on_update / system_render.     *)
(***************************************************************************)
EXTENDS Integers, Sequences, FiniteSets, TLC

\* ------------------------------------------------------------------ bounds
MaxEntities == 2        \* entities in a world
MaxFrames == 4          \* updates the engine drives
MaxOps == 5             \* Renderer calls made by the API client
GridW == 3              \* pixels of a render target (one row)

\* --------------------------------------------------------------- constants
None == "None"
Surface == "surface"
game_scene_texture_view == "scene_view"
Handles == {game_scene_texture_view, "other_view"}
Targets == Handles \cup {Surface}
Pixels == 0 .. (GridW - 1)
ClearColor == "clear"
UninitColor == "uninit"
GuiColor == "gui"
RectColors == {"red", "green"}
INITIAL_RECT_COUNT == 1

VERTEX_COORDS == << <<1, 1>>, <<0, 1>>, <<0, 0>>, <<1, 0>> >>
INDICES == <<0, 1, 2, 0, 2, 3>>
ZeroVertex == [position |-> <<0, 0>>, color |-> "zero"]

\* A Rect: position and scale along the row of pixels, and a colour.
Rects == [position : 0 .. (GridW - 2), scale : {2}, color : RectColors]

\* An entity of the world: Transform (position, size), Shape (color), and
\* whether it carries a Script component.
Entities == [position : 0 .. (GridW - 2), size : {2}, color : RectColors,
             script : BOOLEAN]

RECURSIVE SeqsUpTo(_, _)
SeqsUpTo(S, n) ==
    IF n = 0 THEN {<<>>}
    ELSE LET shorter == SeqsUpTo(S, n - 1)
         IN shorter \cup {Append(s, e) : s \in {t \in shorter : Len(t) = n - 1}, e \in S}

Worlds == SeqsUpTo(Entities, MaxEntities)

VARIABLES
    output_texture,   \* Renderer.output_texture: None or a texture view handle
    vertex_buffer,    \* RectPipeline.vertex_buffer contents (Len = capacity)
    index_buffer,     \* RectPipeline.index_buffer contents (Len = capacity)
    image,            \* pixels of every render target
    queue,            \* command buffers submitted to the GPU queue this frame
    trace,            \* calls made this frame (or by the API client)
    pc,               \* position of the engine / editor / game code
    app,              \* which application the engine runs
    world,            \* Game.world: the entities, in iteration order
    paused,           \* Game.paused
    frames,           \* Editor.frames
    idx,              \* entities already visited by system_render's loop
    scene,            \* the open scene batch (begin_scene .. end_scene)
    render_ctx,       \* the render context prepare() returned
    calc,             \* the last evaluation of the transform functions
    camera,           \* Game.camera
    state,            \* EditorState
    files,            \* the scene files on disk
    system_wasmer,    \* what the last SystemWasmer::run did
    game_scene_texture,  \* size of the texture the editor shows the game in
    renderer          \* Renderer.width, height, scale_factor, surface_config

vars == <<output_texture, vertex_buffer, index_buffer, image, queue, trace, pc,
          app, world, paused, frames, idx, scene, render_ctx, calc, camera, state,
          files, system_wasmer, game_scene_texture, renderer>>

\* The variables the draw path and the frame loop never touch.
toolVars == <<calc, camera, state, files, game_scene_texture, renderer>>

\* ------------------------------------------------------------ trace events
Ev(op, texture, pre, target, acquired, presented, post, who) ==
    [op |-> op, texture |-> texture, pre |-> pre, target |-> target,
     acquired |-> acquired, presented |-> presented, post |-> post, who |-> who]

CallEv(op, who) == Ev(op, None, None, None, FALSE, FALSE, None, who)

\* ------------------------------------------------------------ Rect geometry
\* Rect::vertices: the four unit-quad corners, each with the rect's colour.
vertices(rect) ==
    [i \in 1 .. 4 |-> [position |-> VERTEX_COORDS[i], color |-> rect.color]]

\* Rect::indices: the fixed pattern, two triangles.
indices(rect) == INDICES

\* The pixels the model matrix (scale then translation, rotation 0) maps the
\* unit quad onto.
Covers(rect) == {p \in Pixels : rect.position <= p /\ p < rect.position + rect.scale}

\* encoder.copy_buffer_to_buffer(src, 0, dst, 0, n): the first n elements of
\* dst are overwritten, its capacity is unchanged.
copy_buffer_to_buffer(src, dst, n) ==
    [i \in 1 .. Len(dst) |-> IF i <= n THEN src[i] ELSE dst[i]]

\* One render pass: LoadOp::Clear, then draw_indexed over the first nidx
\* indices of the bound index buffer, reading the bound vertex buffer and the
\* model uniform.
RenderPass(clear, vb, ib, nidx, rect) ==
    [p \in Pixels |->
        IF nidx > 0 /\ p \in Covers(rect) THEN vb[ib[1] + 1].color ELSE clear]

\* ---------------------------------------------------------------- Renderer
\* Renderer::render_to_texture: the new value of output_texture.
render_to_texture_IgnoreNone(texture) ==
    IF texture = None THEN output_texture ELSE texture

render_to_texture(texture) == texture

\* Renderer::draw_rect, choice of the output view: output_texture.take() gives
\* the redirection view and no surface output, otherwise the swap-chain
\* surface texture is acquired.
DrawTarget_AlwaysSurface(ot) == [output |-> "SurfaceTexture", view |-> Surface]

DrawTarget(ot) ==
    IF ot # None
    THEN [output |-> None, view |-> ot]
    ELSE [output |-> "SurfaceTexture", view |-> Surface]

\* Renderer::draw_rect, after the submission: the surface output is presented,
\* a redirection view is put back into output_texture (left None by take()).
AfterDraw_NotRestored(tgt) == None

AfterDraw(tgt) == IF tgt.output # None THEN None ELSE tgt.view

Presented(tgt) == tgt.output # None

\* Renderer::draw_rect(rect), the whole call.
draw_rect(rect, who) ==
    LET tgt == DrawTarget(output_texture)
        vb == copy_buffer_to_buffer(vertices(rect), vertex_buffer, Len(vertices(rect)))
        ib == copy_buffer_to_buffer(indices(rect), index_buffer, Len(indices(rect)))
        n == Len(indices(rect))
    IN /\ vertex_buffer' = vb
       /\ index_buffer' = ib
       /\ image' = [image EXCEPT ![tgt.view] = RenderPass(ClearColor, vb, ib, n, rect)]
       /\ queue' = Append(queue, [by |-> "renderer", target |-> tgt.view,
                                  vertices |-> vertices(rect),
                                  indices |-> indices(rect), drawn |-> n])
       /\ output_texture' = AfterDraw(tgt)
       /\ trace' = Append(trace, Ev("draw_rect", None, output_texture, tgt.view,
                                    tgt.output # None, Presented(tgt),
                                    AfterDraw(tgt), who))

\* --------------------------------------------- batch methods of the Renderer
\* prepare(): the render context; the redirection state current at the call
\* decides the output view.
prepare(ot) == [target |-> IF ot = None THEN Surface ELSE ot]

NoScene == [open |-> FALSE, vertices |-> <<>>, indices |-> <<>>, index_offset |-> 0]

\* begin_scene(camera): an open batch with empty containers, index_offset 0.
begin_scene == [open |-> TRUE, vertices |-> <<>>, indices |-> <<>>, index_offset |-> 0]

\* Buffer growth of end_scene: capacity grows to the requested size, never
\* shrinks; a zero-length request leaves the buffer as it is.
Grow(buffer, needed, fill) ==
    IF needed > Len(buffer)
    THEN [i \in 1 .. needed |-> IF i <= Len(buffer) THEN buffer[i] ELSE fill]
    ELSE buffer

Max(S) == CHOOSE m \in S : \A x \in S : x <= m

\* The pixels quad k of a batch covers, from its (transformed) vertices.
QuadCovers(verts, idxs, k) ==
    LET xs == {verts[idxs[6 * (k - 1) + j] + 1].position[1] : j \in 1 .. 6}
    IN {p \in Pixels : \E lo \in xs : \E hi \in xs : lo <= p /\ p < hi}

\* end_scene's single render pass: clear, then one indexed draw of all
\* accumulated indices, later quads over earlier ones.
BatchPass(clear, verts, idxs) ==
    [p \in Pixels |->
        LET ks == {k \in 1 .. (Len(idxs) \div 6) : p \in QuadCovers(verts, idxs, k)}
        IN IF ks = {} THEN clear ELSE verts[idxs[6 * (Max(ks) - 1) + 1] + 1].color]

\* end_scene(scene, ctx): grow, upload, one render pass, one submission.
end_scene(sc, ctx) ==
    LET vb == copy_buffer_to_buffer(sc.vertices,
                  Grow(vertex_buffer, Len(sc.vertices), ZeroVertex), Len(sc.vertices))
        ib == copy_buffer_to_buffer(sc.indices,
                  Grow(index_buffer, Len(sc.indices), 0), Len(sc.indices))
    IN /\ vertex_buffer' = vb
       /\ index_buffer' = ib
       /\ image' = [image EXCEPT ![ctx.target] = BatchPass(ClearColor, vb, sc.indices)]
       /\ queue' = Append(queue, [by |-> "renderer", target |-> ctx.target,
                                  vertices |-> sc.vertices, indices |-> sc.indices,
                                  drawn |-> Len(sc.indices)])
       /\ scene' = [sc EXCEPT !.open = FALSE]

\* finalise(ctx): the frame's output is presented when it is the surface.
finalise(ctx) == Ev("finalise", None, None, ctx.target, FALSE, ctx.target = Surface,
                    None, "game")

\* ------------------------------------------- control flow of the application
\* Editor::on_update: which frames play the game.
play_game_OneLater(f) == f \in {2, 3}

play_game(f) == f \in {1, 2}

\* system_render: the statement after `at`; i entities are visited, n exist.
system_render_next_DrawAfterEnd(at, i, n) ==
    CASE at = "prepare" -> "begin_scene"
      [] at = "begin_scene" -> "end_scene"
      [] at = "end_scene" -> IF i < n THEN "draw_rect" ELSE "finalise"
      [] at = "draw_rect" -> IF i < n THEN "draw_rect" ELSE "finalise"
      [] at = "finalise" -> "return"

system_render_next_SkipEmpty(at, i, n) ==
    CASE at = "prepare" -> "begin_scene"
      [] at = "begin_scene" -> IF i < n THEN "draw_rect" ELSE "finalise"
      [] at = "draw_rect" -> IF i < n THEN "draw_rect" ELSE "end_scene"
      [] at = "end_scene" -> "finalise"
      [] at = "finalise" -> "return"

system_render_next(at, i, n) ==
    CASE at = "prepare" -> "begin_scene"
      [] at = "begin_scene" -> IF i < n THEN "draw_rect" ELSE "end_scene"
      [] at = "draw_rect" -> IF i < n THEN "draw_rect" ELSE "end_scene"
      [] at = "end_scene" -> "finalise"
      [] at = "finalise" -> "return"

\* Editor::on_update: the statement after `at`.
editor_next_RestoreFirst(at) ==
    CASE at = "ed_redirect" -> "ed_pause"
      [] at = "ed_pause" -> "ed_restore"
      [] at = "ed_restore" -> "game_update"
      [] at = "return" -> "ed_gui"
      [] at = "ed_gui" -> "idle"

editor_next(at) ==
    CASE at = "ed_redirect" -> "ed_pause"
      [] at = "ed_pause" -> "game_update"
      [] at = "return" -> "ed_restore"
      [] at = "ed_restore" -> "ed_gui"
      [] at = "ed_gui" -> "idle"

\* Where control goes when Game::on_update returns.
AfterGameUpdate == IF app = "editor" THEN editor_next("return") ELSE "idle"

\* system_render builds one Rect per entity with Transform and Shape.
RectOf(e) == [position |-> e.position, scale |-> e.size, color |-> e.color]

HasScripts(w) == \E i \in 1 .. Len(w) : w[i].script

Scripts(w) == Cardinality({i \in 1 .. Len(w) : w[i].script})

\* SystemWasmer::run: the scripts are started one after the other, and the
\* first one that fails ends the loop with its error. Every outcome: all the
\* scripts ran, or the j-th failed.
SystemWasmer_run(w) ==
    {[run |-> TRUE, started |-> Scripts(w), failed |-> FALSE]}
    \cup {[run |-> TRUE, started |-> j, failed |-> TRUE] : j \in 1 .. Scripts(w)}

\* Game::on_update, `if !self.paused { self.system_wasmer.run(&self.world)?; }`
on_update_scripts_IgnoresPause(p, w) == SystemWasmer_run(w)

on_update_scripts(p, w) ==
    IF p THEN {[run |-> FALSE, started |-> 0, failed |-> FALSE]}
    ELSE SystemWasmer_run(w)

\* ------------------------------------------------------------- f32 numbers
\* An f32 value is a fraction n/d in lowest terms with d > 0; d = 0 holds the
\* non-finite values: 1/0 is +inf, -1/0 is -inf and 0/0 is NaN. The sign of a
\* zero is not kept.
Q(n, d) == [n |-> n, d |-> d]
R(n) == Q(n, 1)
Inf == Q(1, 0)
NaN == Q(0, 0)
IsNaN(a) == a.d = 0 /\ a.n = 0
IsFinite(a) == a.d # 0
AbsInt(n) == IF n < 0 THEN -n ELSE n
Sign(n) == IF n < 0 THEN -1 ELSE IF n > 0 THEN 1 ELSE 0

RECURSIVE GCD(_, _)
GCD(a, b) == IF b = 0 THEN a ELSE GCD(b, a % b)

Norm(n, d) ==
    IF d = 0 THEN Q(Sign(n), 0)
    ELSE IF n = 0 THEN Q(0, 1)
    ELSE LET g == GCD(AbsInt(n), AbsInt(d))
         IN Q(Sign(d) * (n \div g), AbsInt(d) \div g)

\* Rounding to the 24-bit significand of an f32, ties to even. A value whose
\* denominator is a power of two is rounded exactly as the hardware does; any
\* other value is kept as the exact fraction (its f32 neighbour is within a
\* relative 2^-24 of it).
Significand == 2 ^ 24
DyadicDenominators == {1, 2, 4, 8, 16, 32, 64, 128}
ExcessBits(m) == CHOOSE e \in 0 .. 6 : m < Significand * (2 ^ e) /\ (e = 0 \/ m >= Significand * (2 ^ (e - 1)))
RoundHalfEven(m, q) ==
    LET lo == m \div q
        r == m % q
    IN IF 2 * r < q THEN lo * q
       ELSE IF 2 * r > q THEN (lo + 1) * q
       ELSE IF lo % 2 = 0 THEN lo * q ELSE (lo + 1) * q

F32(a) ==
    IF a.d \in DyadicDenominators /\ AbsInt(a.n) >= Significand
    THEN Norm(Sign(a.n) * RoundHalfEven(AbsInt(a.n), 2 ^ ExcessBits(AbsInt(a.n))), a.d)
    ELSE a

\* f32 arithmetic (IEEE 754): a NaN operand gives NaN, inf * 0 and inf - inf
\* give NaN, x / 0 gives an infinity; a comparison with NaN is false.
Mul(a, b) ==
    IF IsNaN(a) \/ IsNaN(b) THEN NaN
    ELSE IF a.d = 1 /\ b.d = 1 /\ (a.n \in {0, 1} \/ b.n \in {0, 1}) THEN Q(a.n * b.n, 1)
    ELSE F32(Norm(a.n * b.n, a.d * b.d))

Add(a, b) ==
    IF IsNaN(a) \/ IsNaN(b) THEN NaN
    ELSE IF a.d = 0 /\ b.d = 0 THEN (IF a.n = b.n THEN a ELSE NaN)
    ELSE IF a.n = 0 THEN b
    ELSE IF b.n = 0 THEN a
    ELSE F32(Norm(a.n * b.d + b.n * a.d, a.d * b.d))

Neg(a) == Q(-a.n, a.d)
Sub(a, b) == Add(a, Neg(b))
Recip(a) == IF IsNaN(a) THEN NaN ELSE F32(Norm(a.d, a.n))
Div(a, b) == Mul(a, Recip(b))
Abs(a) == Q(AbsInt(a.n), a.d)
Le(a, b) == ~IsNaN(a) /\ ~IsNaN(b) /\ a.n * b.d <= b.n * a.d
Ge(a, b) == Le(b, a)

\* f32::to_radians followed by sin_cos, at the quarter turns.
Degrees == {0, 90, 180, 270}
Cos(deg) == R(CASE deg % 360 = 0 -> 1 [] deg % 360 = 90 -> 0
               [] deg % 360 = 180 -> -1 [] deg % 360 = 270 -> 0)
Sin(deg) == R(CASE deg % 360 = 0 -> 0 [] deg % 360 = 90 -> 1
               [] deg % 360 = 180 -> 0 [] deg % 360 = 270 -> -1)

\* ------------------------------------------------------------------- glam
\* A Mat4 restricted to the rows and columns x, y, w (row-major here); its z
\* row and column hold zeros and a one and never reach the x and y of a point
\* with z = 0 unless the matrix is already non-finite there.
Axes == 1 .. 3
Mat(r1, r2, r3) == <<r1, r2, r3>>
IDENTITY == Mat(<<R(1), R(0), R(0)>>, <<R(0), R(1), R(0)>>, <<R(0), R(0), R(1)>>)
from_translation(x, y) == Mat(<<R(1), R(0), x>>, <<R(0), R(1), y>>, <<R(0), R(0), R(1)>>)
from_rotation_z(deg) ==
    Mat(<<Cos(deg), Neg(Sin(deg)), R(0)>>, <<Sin(deg), Cos(deg), R(0)>>, <<R(0), R(0), R(1)>>)
from_scale(x, y) == Mat(<<x, R(0), R(0)>>, <<R(0), y, R(0)>>, <<R(0), R(0), R(1)>>)

\* Mat4 * Mat4 and Mat4 * Vec4: each result component is the sum, in column
\* order, of the products.
MatMul(A, B) ==
    [r \in Axes |-> [c \in Axes |->
        Add(Add(Mul(A[r][1], B[1][c]), Mul(A[r][2], B[2][c])), Mul(A[r][3], B[3][c]))]]

MulVec(A, v) ==
    [r \in Axes |-> Add(Add(Mul(A[r][1], v[1]), Mul(A[r][2], v[2])), Mul(A[r][3], v[3]))]

\* Vec4::from((p, 0.0, 1.0)) and .xy()
Point(p) == <<p[1], p[2], R(1)>>
xy(v) == <<v[1], v[2]>>

\* --------------------------------------------------------------- Transform
\* components.rs: forward model matrix, translate * rotateZ(-rotation) * scale.
compute_transformation_matrix(t) ==
    MatMul(MatMul(from_translation(t.position[1], t.position[2]),
                  from_rotation_z(360 - t.rotation)),
           from_scale(t.size[1], t.size[2]))

\* rect.rs Rect::scale_rotation_translation: translate(position) *
\* translate(scale / 2) * rotateZ(-rotation_degrees) * translate(-scale / 2)
\* * scale(scale).
scale_rotation_translation(rect) ==
    LET half == <<Mul(Q(1, 2), rect.scale[1]), Mul(Q(1, 2), rect.scale[2])>>
    IN MatMul(MatMul(MatMul(MatMul(from_translation(rect.position[1], rect.position[2]),
                                   from_translation(half[1], half[2])),
                            from_rotation_z(360 - rect.rotation_degrees)),
                     from_translation(Neg(half[1]), Neg(half[2]))),
              from_scale(rect.scale[1], rect.scale[2]))

\* The quad a model matrix draws: the image of the unit quad, which at a
\* quarter turn is the box spanned by the images of two opposite corners.
Between(a, b, x) == (Le(a, x) /\ Le(x, b)) \/ (Le(b, x) /\ Le(x, a))
InQuad(model, point) ==
    LET c00 == MulVec(model, <<R(0), R(0), R(1)>>)
        c11 == MulVec(model, <<R(1), R(1), R(1)>>)
    IN Between(c00[1], c11[1], point[1]) /\ Between(c00[2], c11[2], point[2])

compute_inverse_transformation_matrix_SameSign(t) ==
    MatMul(MatMul(from_scale(Recip(t.size[1]), Recip(t.size[2])),
                  from_rotation_z(360 - t.rotation)),
           from_translation(Neg(t.position[1]), Neg(t.position[2])))

\* components.rs: scale(1/size) * rotateZ(rotation) * translate(-position).
compute_inverse_transformation_matrix(t) ==
    MatMul(MatMul(from_scale(Recip(t.size[1]), Recip(t.size[2])),
                  from_rotation_z(t.rotation)),
           from_translation(Neg(t.position[1]), Neg(t.position[2])))

\* ------------------------------------------------------------------ Camera
\* glam::Mat4::orthographic_lh(left, right, bottom, top, -1.0, 1.0), rows and
\* columns x, y, w.
orthographic_lh(left, right, bottom, top) ==
    LET rcp_width == Recip(Sub(right, left))
        rcp_height == Recip(Sub(top, bottom))
    IN Mat(<<Add(rcp_width, rcp_width), R(0), Neg(Mul(Add(left, right), rcp_width))>>,
           <<R(0), Add(rcp_height, rcp_height), Neg(Mul(Add(top, bottom), rcp_height))>>,
           <<R(0), R(0), R(1)>>)

\* glam::Mat4::look_at_lh(eye, eye + Z, Y): the axes are the world's, the
\* translation is -eye.
look_at_lh(eye) == from_translation(Neg(eye[1]), Neg(eye[2]))

Camera_new(width, height) ==
    [width |-> width, height |-> height, view |-> IDENTITY,
     projection |-> orthographic_lh(R(0), R(width), R(0), R(height))]

Camera_resize_KeepsProjection(cam, width, height) ==
    [cam EXCEPT !.width = width, !.height = height]

Camera_resize_ResetsView(cam, width, height) ==
    [cam EXCEPT !.width = width, !.height = height,
                !.view = look_at_lh(<<R(-200), R(-200)>>),
                !.projection = orthographic_lh(R(0), R(width), R(0), R(height))]

Camera_resize(cam, width, height) ==
    [cam EXCEPT !.width = width, !.height = height,
                !.projection = orthographic_lh(R(0), R(width), R(0), R(height))]

\* Camera::get_view: a fixed look-at, whatever the camera holds.
get_view_Stored(cam) == cam.view

get_view(cam) == look_at_lh(<<R(-200), R(-200)>>)

get_projection(cam) == cam.projection

\* ------------------------------------------------------------- scene files
\* Text is a sequence of symbols: the characters of tags and paths, the blank,
\* the newline, the dash, and one symbol for the text of each number.
NL == "\n"
Blank == " "
Dash == "-"
Whitespace == {Blank, NL}
NoFile == <<"NoFile">>

RECURSIVE Concat(_)
Concat(ss) == IF ss = <<>> THEN <<>> ELSE Head(ss) \o Concat(Tail(ss))

\* format!("{}", f32): an integral value prints without a fraction part.
Display(x) == <<ToString(x.n)>>

\* format!("{} {} {} {} {}", ...): the values separated by single blanks.
RECURSIVE Joined(_)
Joined(xs) ==
    IF Len(xs) = 1 THEN Display(xs[1])
    ELSE Display(xs[1]) \o <<Blank>> \o Joined(Tail(xs))

\* str::trim
RECURSIVE trim_start(_)
trim_start(s) ==
    IF s # <<>> /\ Head(s) \in Whitespace THEN trim_start(Tail(s)) ELSE s

RECURSIVE trim_end(_)
trim_end(s) ==
    IF s # <<>> /\ s[Len(s)] \in Whitespace THEN trim_end(SubSeq(s, 1, Len(s) - 1)) ELSE s

trim_IgnoresLeading(s) == trim_end(s)

trim(s) == trim_end(trim_start(s))

\* str::split(pattern): the pieces between the occurrences of the pattern,
\* found from the left.
StartsWith(s, pat) == Len(s) >= Len(pat) /\ SubSeq(s, 1, Len(pat)) = pat

RECURSIVE SplitFrom(_, _, _)
SplitFrom(s, pat, piece) ==
    IF s = <<>> THEN <<piece>>
    ELSE IF StartsWith(s, pat)
         THEN <<piece>> \o SplitFrom(SubSeq(s, Len(pat) + 1, Len(s)), pat, <<>>)
         ELSE SplitFrom(Tail(s), pat, Append(piece, Head(s)))

split(s, pat) == SplitFrom(s, pat, <<>>)

\* str::split_whitespace: the maximal runs of non-whitespace symbols.
split_whitespace(s) ==
    SelectSeq(split([i \in 1 .. Len(s) |-> IF s[i] \in Whitespace THEN Blank ELSE s[i]],
                    <<Blank>>),
              LAMBDA piece : piece # <<>>)

\* f32::from_str: Ok for the text of a number, Err for anything else.
SceneNumbers == {-75, 0, 1, 50, 90, 100, 120, 125, 275}
IsNumber(tok) == Len(tok) = 1 /\ \E n \in SceneNumbers : ToString(n) = tok[1]
from_str(tok) == R(CHOOSE n \in SceneNumbers : ToString(n) = tok[1])

\* --------------------------------------------------------------- the World
\* An entity of the scene: its id, Tag, Transform, Shape colour and the path
\* of its Script, if it has one.
NoScript == <<"NoScript">>
Archetype(e) == e.script # NoScript

\* hecs World::spawn: entities are kept by archetype, the archetypes in the
\* order they first appeared; world is the iteration order.
LastOf(w, e) ==
    LET same == {i \in 1 .. Len(w) : Archetype(w[i]) = Archetype(e)}
    IN IF same = {} THEN Len(w) ELSE CHOOSE i \in same : \A j \in same : j <= i

spawn(w, tag, transform, color, script) ==
    LET e == [id |-> Len(w), tag |-> tag, transform |-> transform, color |-> color,
              script |-> script]
        at == LastOf(w, e)
    IN SubSeq(w, 1, at) \o <<e>> \o SubSeq(w, at + 1, Len(w))

RECURSIVE SpawnAll(_, _)
SpawnAll(w, es) ==
    IF es = <<>> THEN w
    ELSE SpawnAll(spawn(w, es[1].tag, es[1].transform, es[1].color, es[1].script),
                  Tail(es))

\* The components of the entities, in iteration order, without the ids.
Components(w) ==
    [i \in 1 .. Len(w) |-> [tag |-> w[i].tag, transform |-> w[i].transform,
                            color |-> w[i].color, script |-> w[i].script]]

\* ------------------------------------------------------ Game::on_start
\* One record of the scene file: Ok with the components, or the panic of an
\* index out of bounds or of unwrap() on a failed f32::from_str.
Panic == [ok |-> FALSE]

ParseEntity(entity) ==
    LET components == split(entity, <<NL>>)
        transform == IF Len(components) >= 2 THEN split_whitespace(components[2]) ELSE <<>>
        colors == IF Len(components) >= 3 THEN split_whitespace(components[3]) ELSE <<>>
    IN IF \/ Len(components) < 3
          \/ Len(transform) < 5
          \/ \E i \in 1 .. 5 : ~IsNumber(transform[i])
          \/ Len(colors) < 4
          \/ \E i \in 1 .. 4 : ~IsNumber(colors[i])
       THEN Panic
       ELSE [ok |-> TRUE,
             tag |-> components[1],
             transform |-> [position |-> <<from_str(transform[1]), from_str(transform[2])>>,
                            size |-> <<from_str(transform[3]), from_str(transform[4])>>,
                            rotation |-> from_str(transform[5]).n],
             color |-> [i \in 1 .. 4 |-> from_str(colors[i])],
             script |-> IF Len(components) < 5 THEN NoScript ELSE trim(components[4])]

\* Game::on_start on the text of the file (a missing file leaves the world
\* empty). The records are parsed and spawned one after the other, so a panic
\* comes after the records before it were spawned: ok tells whether on_start
\* returned, world is the world when it returned or panicked.
on_start(file) ==
    IF file = NoFile THEN [ok |-> TRUE, world |-> <<>>]
    ELSE LET entities == SelectSeq(split(trim(file), <<Dash, Dash, Dash, NL>>),
                                   LAMBDA e : e # <<>>)
         IN CHOOSE r \in
              {[ok |-> \A i \in 1 .. Len(parsed) : parsed[i].ok,
                world |-> SpawnAll(<<>>, SelectSeq(
                              [i \in 1 .. Len(parsed) |->
                                  IF \A j \in 1 .. i : parsed[j].ok THEN parsed[i]
                                  ELSE Panic],
                              LAMBDA e : e.ok))] :
                 parsed \in {[i \in 1 .. Len(entities) |-> ParseEntity(entities[i])]}} :
              TRUE

\* ------------------------------------------------------------ editor GUI
\* gui.rs update, the save: one record per entity in iteration order.
SaveEntity(e) ==
    Concat(<<e.tag, <<NL>>,
             Joined(<<e.transform.position[1], e.transform.position[2],
                      e.transform.size[1], e.transform.size[2], R(e.transform.rotation)>>),
             <<NL>>,
             Joined(e.color),
             IF e.script # NoScript THEN <<NL>> \o e.script ELSE <<>>,
             <<NL, Dash, Dash, Dash, NL>> >>)

editor_state(w) == Concat([i \in 1 .. Len(w) |-> SaveEntity(w[i])])

\* editor.rs Editor::on_update, the save: the transform and the colour of
\* game.rects[0], the first entity; no tag and no delimiter.
editor_rs_state(w) ==
    Concat(<<Joined(<<w[1].transform.position[1], w[1].transform.position[2],
                      w[1].transform.size[1], w[1].transform.size[2],
                      R(w[1].transform.rotation)>>),
             <<NL>>, Joined(w[1].color), <<NL>> >>)

\* Option<Entity>::None
NoEntity == 0 - 1

\* EditorState::default()
EditorState_default ==
    [mouse_window_pos |-> <<R(0), R(0)>>, mouse_viewport_pos |-> <<R(0), R(0)>>,
     mouse_world_pos |-> <<R(0), R(0)>>, active_entity |-> NoEntity,
     changed_since_last_save |-> FALSE, save_requested |-> FALSE,
     build_requested |-> FALSE, window_resized |-> FALSE]

\* The scene image inside the window: where the central panel puts it and
\* how large it is (physical pixels, scale factor 1).
SceneRectMin == <<R(0), R(0)>>
SceneSize == <<800, 600>>

\* Mat4::inverse of a matrix that scales and translates.
inverse(M) ==
    Mat(<<Recip(M[1][1]), R(0), Neg(Mul(M[1][3], Recip(M[1][1])))>>,
        <<R(0), Recip(M[2][2]), Neg(Mul(M[2][3], Recip(M[2][2])))>>,
        <<R(0), R(0), R(1)>>)

\* gui.rs update, lines 200-220: the pointer hovering the scene image at
\* window position pos.
Hover(st, cam, pos) ==
    LET window == pos
        viewport == <<Sub(window[1], SceneRectMin[1]), Sub(window[2], SceneRectMin[2])>>
        ndc_x == Sub(Mul(Div(viewport[1], R(SceneSize[1])), R(2)), R(1))
        ndc_y == Mul(Sub(Mul(Div(viewport[2], R(SceneSize[2])), R(2)), R(1)), R(-1))
        world_pos == MulVec(inverse(get_view(cam)),
                            MulVec(inverse(get_projection(cam)), <<ndc_x, ndc_y, R(1)>>))
    IN [st EXCEPT !.mouse_window_pos = window, !.mouse_viewport_pos = viewport,
                  !.mouse_world_pos = xy(world_pos)]

\* gui.rs update, lines 228-231: the test of the local point.
IsHit_NaNPasses(test_point) ==
    \A i \in 1 .. 2 : ~(Le(test_point[i], R(0)) /\ test_point[i] # R(0))
                      /\ ~(Ge(test_point[i], R(1)) /\ test_point[i] # R(1))

IsHit(test_point) ==
    /\ Ge(test_point[1], R(0)) /\ Le(test_point[1], R(1))
    /\ Ge(test_point[2], R(0)) /\ Le(test_point[2], R(1))

HitTest(transform, point) ==
    IsHit(xy(MulVec(compute_inverse_transformation_matrix(transform), Point(point))))

\* gui.rs update, lines 224-235: every entity is tested in iteration order and
\* each hit overwrites the active entity.
RECURSIVE Pick_FirstWins(_, _, _)
Pick_FirstWins(w, point, active) ==
    IF w = <<>> THEN active
    ELSE IF HitTest(Head(w).transform, point) THEN Head(w).id
    ELSE Pick_FirstWins(Tail(w), point, active)

RECURSIVE Pick(_, _, _)
Pick(w, point, active) ==
    IF w = <<>> THEN active
    ELSE Pick(Tail(w), point,
              IF HitTest(Head(w).transform, point) THEN Head(w).id ELSE active)

Red == <<R(1), R(0), R(0), R(1)>>
EntityTag == <<"E", "n", "t", "i", "t", "y">>

\* An input of one update: what the user does during the frame. The pointer
\* is over the scene image at pos (hover) or elsewhere; a click is on the
\* scene image ("primary", "secondary"), on a menu button ("save", "build")
\* or on the button of entity `entity` in the hierarchy; `tag` is the new text
\* of the tag field of the properties panel ("edit_tag").
\* size is what the central panel has left for the scene image, in points,
\* and scale_factor the window's scale factor during the frame.
Input(kind, hover, pos, entity, tag) ==
    [kind |-> kind, hover |-> hover, pos |-> pos, entity |-> entity, tag |-> tag,
     size |-> <<R(SceneSize[1]), R(SceneSize[2])>>, scale_factor |-> R(1)]

\* `x as u32` of an f32: truncated toward zero and saturating, NaN gives 0.
\* The finite values of the model lie far below u32::MAX, so only +inf
\* saturates, to the largest integer of the model.
as_u32(x) ==
    IF x.d = 0 THEN (IF x.n > 0 THEN 2147483647 ELSE 0)
    ELSE IF x.n <= 0 THEN 0
    ELSE x.n \div x.d

\* scene.hover_pos() is Some
hover_pos_Always(in) == TRUE

hover_pos(in) == in.hover

\* scene.clicked_by(button)
clicked_by(in, button) == in.hover /\ in.kind = button

\* editor::gui::update works on the world, the EditorState, the camera and the
\* files, the scene texture and the input of the frame: u is the record of
\* these and of ok, which is FALSE once the update has panicked.

\* gui.rs update, lines 35-55: the File menu.
menu_bar(u) ==
    [u EXCEPT !.state.save_requested = @ \/ u.in.kind \in {"save", "save_build"},
              !.state.build_requested = @ \/ u.in.kind \in {"build", "save_build"}]

\* gui.rs update, lines 57-71, and EntityDetails::ui, lines 21-25.
hierarchy_panel(u) ==
    IF u.in.kind = "hierarchy" THEN [u EXCEPT !.state.active_entity = u.in.entity]
    ELSE u

\* gui.rs update, lines 73-157: the tag field of the active entity.
properties_panel(u) ==
    IF u.in.kind = "edit_tag" /\ u.state.active_entity # NoEntity
    THEN [u EXCEPT !.world = [i \in 1 .. Len(u.world) |->
                                IF u.world[i].id = u.state.active_entity
                                THEN [u.world[i] EXCEPT !.tag = u.in.tag]
                                ELSE u.world[i]],
                   !.state.changed_since_last_save = TRUE]
    ELSE u

\* gui.rs update, lines 195-221.
scene_hover(u) ==
    IF hover_pos(u.in) THEN [u EXCEPT !.state = Hover(u.state, u.camera, u.in.pos)]
    ELSE u

\* gui.rs update, lines 223-236.
scene_primary_click(u) ==
    IF clicked_by(u.in, "primary")
    THEN [u EXCEPT !.state.active_entity = Pick(u.world, u.state.mouse_world_pos, @)]
    ELSE u

\* gui.rs update, lines 238-252.
scene_secondary_click(u) ==
    IF clicked_by(u.in, "secondary")
    THEN [u EXCEPT !.world = spawn(u.world, EntityTag,
                                   [position |-> u.state.mouse_world_pos,
                                    size |-> <<R(100), R(100)>>, rotation |-> 0],
                                   Red, NoScript)]
    ELSE u

\* gui.rs update, lines 254-279: the game gets a Resized event with the size
\* of the panel in physical pixels, and the texture is created anew with
\* the size of the panel in points.
scene_resize_TextureInPixels(u) ==
    IF u.state.window_resized
    THEN [u EXCEPT !.camera = Camera_resize(u.camera,
                                  as_u32(Mul(u.in.size[1], u.in.scale_factor)),
                                  as_u32(Mul(u.in.size[2], u.in.scale_factor))),
                   !.texture = <<as_u32(Mul(u.in.size[1], u.in.scale_factor)),
                                 as_u32(Mul(u.in.size[2], u.in.scale_factor))>>]
    ELSE u

scene_resize(u) ==
    IF u.state.window_resized
    THEN [u EXCEPT !.camera = Camera_resize(u.camera,
                                  as_u32(Mul(u.in.size[1], u.in.scale_factor)),
                                  as_u32(Mul(u.in.size[2], u.in.scale_factor))),
                   !.texture = <<as_u32(u.in.size[1]), as_u32(u.in.size[2])>>]
    ELSE u

\* gui.rs update, lines 288-331.
save(u) ==
    IF u.state.save_requested
    THEN [u EXCEPT !.files.alpha = editor_state(u.world),
                   !.state.save_requested = FALSE,
                   !.state.changed_since_last_save = FALSE]
    ELSE u

\* gui.rs update, lines 333-338: fs::copy panics when there is no scene file.
build(u) ==
    IF u.state.build_requested
    THEN [u EXCEPT !.ok = u.files.alpha # NoFile,
                   !.files.ini = IF u.files.alpha # NoFile THEN u.files.alpha ELSE @,
                   !.state.build_requested = FALSE]
    ELSE u

\* The update with the build handled before the save.
update_BuildFirst(w, st, cam, tex, fs, in) ==
    save(build(scene_resize(scene_secondary_click(scene_primary_click(
        scene_hover(properties_panel(hierarchy_panel(menu_bar(
            [ok |-> TRUE, world |-> w, state |-> st, camera |-> cam,
             texture |-> tex, files |-> fs, in |-> in])))))))))

\* editor::gui::update: menu bar, hierarchy, properties panel, scene image
\* (hover, primary click, secondary click, resize), then save and build.
update(w, st, cam, tex, fs, in) ==
    build(save(scene_resize(scene_secondary_click(scene_primary_click(
        scene_hover(properties_panel(hierarchy_panel(menu_bar(
            [ok |-> TRUE, world |-> w, state |-> st, camera |-> cam,
             texture |-> tex, files |-> fs, in |-> in])))))))))

\* The transform functions have not been evaluated.
NoCalc == [op |-> "none"]
NoCamera == "NoCamera"
NoState == EditorState_default
NoFiles == [alpha |-> NoFile, ini |-> NoFile]

\* SystemWasmer::run has not been called in this update.
NotRun == [run |-> FALSE, started |-> 0, failed |-> FALSE]

\* Editor::create: the texture the game is rendered into.
SceneTextureSize == <<1280, 720>>

\* Renderer::new: the size and the scale factor of the window. configured
\* tells whether the last call on the Renderer called surface.configure.
Renderer_new(width, height, scale_factor) ==
    [width |-> width, height |-> height, scale_factor |-> scale_factor,
     surface_config |-> [width |-> width, height |-> height], configured |-> TRUE]

\* Renderer::resize
Renderer_resize_Unguarded(r, width, height, scale_factor) ==
    [width |-> width, height |-> height, scale_factor |-> scale_factor,
     surface_config |-> [width |-> width, height |-> height], configured |-> TRUE]

Renderer_resize(r, width, height, scale_factor) ==
    IF width > 0 /\ height > 0
    THEN [width |-> width, height |-> height, scale_factor |-> scale_factor,
          surface_config |-> [r.surface_config EXCEPT !.width = width,
                                                      !.height = height],
          configured |-> TRUE]
    ELSE [r EXCEPT !.configured = FALSE]

\* -------------------------------------------------------------- API client
InitCommon ==
    /\ output_texture = None
    /\ vertex_buffer = [i \in 1 .. (4 * INITIAL_RECT_COUNT) |-> ZeroVertex]
    /\ index_buffer = [i \in 1 .. (6 * INITIAL_RECT_COUNT) |-> 0]
    /\ image = [t \in Targets |-> [p \in Pixels |-> UninitColor]]
    /\ queue = <<>>
    /\ trace = <<>>
    /\ world = <<>>
    /\ paused = FALSE
    /\ frames = 0
    /\ idx = 0
    /\ scene = NoScene
    /\ render_ctx = [target |-> None]
    /\ system_wasmer = NotRun

InitHost ==
    /\ game_scene_texture = SceneTextureSize
    /\ renderer = Renderer_new(SceneSize[1], SceneSize[2], 1)

InitTools ==
    /\ InitHost
    /\ calc = NoCalc
    /\ camera = NoCamera
    /\ state = NoState
    /\ files = NoFiles

InitApi ==
    /\ InitCommon
    /\ InitTools
    /\ pc = "api"
    /\ app = "api"

ApiRenderToTexture ==
    /\ pc = "api"
    /\ Len(trace) < MaxOps
    /\ \E t \in Handles \cup {None} :
         /\ output_texture' = render_to_texture(t)
         /\ trace' = Append(trace, Ev("render_to_texture", t, output_texture, None,
                                      FALSE, FALSE, render_to_texture(t), "api"))
    /\ UNCHANGED system_wasmer
    /\ UNCHANGED toolVars
    /\ UNCHANGED <<vertex_buffer, index_buffer, image, queue, pc, app, world,
                   paused, frames, idx, scene, render_ctx>>

ApiDrawRect ==
    /\ pc = "api"
    /\ Len(trace) < MaxOps
    /\ \E r \in Rects : draw_rect(r, "api")
    /\ UNCHANGED system_wasmer
    /\ UNCHANGED toolVars
    /\ UNCHANGED <<pc, app, world, paused, frames, idx, scene, render_ctx>>

NextApi == ApiRenderToTexture \/ ApiDrawRect

SpecApi == InitApi /\ [][NextApi]_vars

\* ------------------------------------------------------------- application
Init ==
    /\ InitCommon
    /\ InitTools
    /\ pc = "on_start"
    /\ app \in {"game", "editor"}

\* Application::on_start: the game loads its scene; the editor forwards to the
\* game and pauses it.
OnStart ==
    /\ pc = "on_start"
    /\ world' \in Worlds
    /\ paused' = (app = "editor")
    /\ pc' = "idle"
    /\ UNCHANGED system_wasmer
    /\ UNCHANGED toolVars
    /\ UNCHANGED <<output_texture, vertex_buffer, index_buffer, image, queue,
                   trace, app, frames, idx, scene, render_ctx>>

\* Engine::run: the engine calls app.on_update for the next frame.
EngineUpdate ==
    /\ pc = "idle"
    /\ frames < MaxFrames
    /\ trace' = <<>>
    /\ queue' = <<>>
    /\ pc' = IF app = "editor" THEN "ed_redirect" ELSE "game_update"
    /\ UNCHANGED system_wasmer
    /\ UNCHANGED toolVars
    /\ UNCHANGED <<output_texture, vertex_buffer, index_buffer, image, app, world,
                   paused, frames, idx, scene, render_ctx>>

\* Editor::on_update: renderer.render_to_texture(Some(game_scene_texture_view)).
EditorRedirect ==
    /\ pc = "ed_redirect"
    /\ output_texture' = render_to_texture(game_scene_texture_view)
    /\ trace' = Append(trace, Ev("render_to_texture", game_scene_texture_view,
                                 output_texture, None, FALSE, FALSE,
                                 render_to_texture(game_scene_texture_view), "editor"))
    /\ pc' = editor_next(pc)
    /\ UNCHANGED system_wasmer
    /\ UNCHANGED toolVars
    /\ UNCHANGED <<vertex_buffer, index_buffer, image, queue, app, world, paused,
                   frames, idx, scene, render_ctx>>

\* Editor::on_update: game.pause(!play_game).
EditorPause ==
    /\ pc = "ed_pause"
    /\ paused' = ~play_game(frames)
    /\ pc' = editor_next(pc)
    /\ UNCHANGED system_wasmer
    /\ UNCHANGED toolVars
    /\ UNCHANGED <<output_texture, vertex_buffer, index_buffer, image, queue, trace,
                   app, world, frames, idx, scene, render_ctx>>

\* Game::on_update up to system_render: the scripts run unless paused; a
\* failing script makes on_update return the error before rendering, which
\* the editor's expect() turns into a panic.
GameUpdate ==
    /\ pc = "game_update"
    /\ trace' = Append(trace, CallEv("on_update", "game"))
    /\ \E r \in on_update_scripts(paused, world) :
         /\ system_wasmer' = r
         /\ pc' = IF ~r.failed THEN "prepare"
                  ELSE IF app = "editor" THEN "crashed" ELSE "idle"
    /\ UNCHANGED toolVars
    /\ UNCHANGED <<output_texture, vertex_buffer, index_buffer, image, queue, app,
                   world, paused, frames, idx, scene, render_ctx>>

\* system_render: let mut render_ctx = renderer.prepare().
SysPrepare ==
    /\ pc = "prepare"
    /\ render_ctx' = prepare(output_texture)
    /\ idx' = 0
    /\ trace' = Append(trace, Ev("prepare", None, output_texture,
                                 prepare(output_texture).target, FALSE, FALSE,
                                 output_texture, "game"))
    /\ pc' = system_render_next(pc, 0, Len(world))
    /\ UNCHANGED system_wasmer
    /\ UNCHANGED toolVars
    /\ UNCHANGED <<output_texture, vertex_buffer, index_buffer, image, queue, app,
                   world, paused, frames, scene>>

\* system_render: let mut scene = renderer.begin_scene(camera).
SysBeginScene ==
    /\ pc = "begin_scene"
    /\ scene' = begin_scene
    /\ trace' = Append(trace, CallEv("begin_scene", "game"))
    /\ pc' = system_render_next(pc, idx, Len(world))
    /\ UNCHANGED system_wasmer
    /\ UNCHANGED toolVars
    /\ UNCHANGED <<output_texture, vertex_buffer, index_buffer, image, queue, app,
                   world, paused, frames, idx, render_ctx>>

\* system_render: one iteration of the loop, renderer.draw_rect for the next
\* entity in iteration order.
SysDrawRect ==
    /\ pc = "draw_rect"
    /\ idx < Len(world)
    /\ draw_rect(RectOf(world[idx + 1]), "game")
    /\ idx' = idx + 1
    /\ pc' = system_render_next(pc, idx + 1, Len(world))
    /\ UNCHANGED system_wasmer
    /\ UNCHANGED toolVars
    /\ UNCHANGED <<app, world, paused, frames, scene, render_ctx>>

\* system_render: renderer.end_scene(scene, &mut render_ctx).
SysEndScene ==
    /\ pc = "end_scene"
    /\ end_scene(scene, render_ctx)
    /\ trace' = Append(trace, Ev("end_scene", None, output_texture, render_ctx.target,
                                 FALSE, FALSE, output_texture, "game"))
    /\ pc' = system_render_next(pc, idx, Len(world))
    /\ UNCHANGED system_wasmer
    /\ UNCHANGED toolVars
    /\ UNCHANGED <<output_texture, app, world, paused, frames, idx, render_ctx>>

\* system_render: renderer.finalise(render_ctx); on_update returns Ok.
SysFinalise ==
    /\ pc = "finalise"
    /\ trace' = Append(trace, finalise(render_ctx))
    /\ pc' = IF system_render_next(pc, idx, Len(world)) = "return"
             THEN AfterGameUpdate
             ELSE system_render_next(pc, idx, Len(world))
    /\ UNCHANGED system_wasmer
    /\ UNCHANGED toolVars
    /\ UNCHANGED <<output_texture, vertex_buffer, index_buffer, image, queue, app,
                   world, paused, frames, idx, scene, render_ctx>>

\* Editor::on_update: renderer.render_to_texture(None).
EditorRestore ==
    /\ pc = "ed_restore"
    /\ output_texture' = render_to_texture(None)
    /\ trace' = Append(trace, Ev("render_to_texture", None, output_texture, None,
                                 FALSE, FALSE, render_to_texture(None), "editor"))
    /\ pc' = editor_next(pc)
    /\ UNCHANGED system_wasmer
    /\ UNCHANGED toolVars
    /\ UNCHANGED <<vertex_buffer, index_buffer, image, queue, app, world, paused,
                   frames, idx, scene, render_ctx>>

\* Editor::on_update: the GUI pass. The editor acquires the surface texture,
\* executes the egui render pass on it, submits its own encoder and presents;
\* then frames += 1.
EditorGui ==
    /\ pc = "ed_gui"
    /\ image' = [image EXCEPT ![Surface] = [p \in Pixels |-> GuiColor]]
    /\ queue' = Append(queue, [by |-> "editor", target |-> Surface,
                               vertices |-> <<>>, indices |-> <<>>, drawn |-> 0])
    /\ trace' = Append(trace, Ev("ui_pass", None, output_texture, Surface, TRUE, TRUE,
                                 output_texture, "editor"))
    /\ frames' = frames + 1
    /\ pc' = editor_next(pc)
    /\ UNCHANGED system_wasmer
    /\ UNCHANGED toolVars
    /\ UNCHANGED <<output_texture, vertex_buffer, index_buffer, app, world, paused,
                   idx, scene, render_ctx>>

Next ==
    \/ OnStart
    \/ EngineUpdate
    \/ EditorRedirect
    \/ EditorPause
    \/ GameUpdate
    \/ SysPrepare
    \/ SysBeginScene
    \/ SysDrawRect
    \/ SysEndScene
    \/ SysFinalise
    \/ EditorRestore
    \/ EditorGui

Spec == Init /\ [][Next]_vars

\* ------------------------------------------------- claims on the Renderer API
IsDraw(e) == e.op = "draw_rect"
IsRedirect(e) == e.op = "render_to_texture"

\* C1: after render_to_texture(Some(h)), one draw, render_to_texture(None),
\* the next draw targets the swap-chain surface and not h, for every handle h
\* and whatever calls came before the sequence.
C1_NextDrawTargetsSurface ==
    \A i \in 1 .. Len(trace) :
        (/\ i + 3 <= Len(trace)
         /\ IsRedirect(trace[i]) /\ trace[i].texture \in Handles
         /\ IsDraw(trace[i + 1])
         /\ IsRedirect(trace[i + 2]) /\ trace[i + 2].texture = None
         /\ IsDraw(trace[i + 3]))
        => /\ trace[i + 3].target = Surface
           /\ trace[i + 3].target # trace[i].texture
           /\ trace[i + 1].target = trace[i].texture

\* The sequence has happened, preceded by a call that left the renderer
\* redirected to a different handle.
C1_Witness ==
    /\ Len(trace) = 5
    /\ IsRedirect(trace[1]) /\ trace[1].texture = "other_view"
    /\ IsRedirect(trace[2]) /\ trace[2].texture = game_scene_texture_view
    /\ IsDraw(trace[3])
    /\ IsRedirect(trace[4]) /\ trace[4].texture = None
    /\ IsDraw(trace[5])

\* C2: every draw targets exactly one output: the swap-chain surface is
\* acquired and presented if and only if no redirection texture is set when
\* the draw starts; with a redirection texture set the draw targets that
\* texture and neither acquires nor presents the surface.
C2_OneOutputPerDraw ==
    \A i \in 1 .. Len(trace) :
        IsDraw(trace[i]) =>
            /\ trace[i].acquired <=> (trace[i].pre = None)
            /\ trace[i].presented <=> (trace[i].pre = None)
            /\ (trace[i].pre = None) <=> (trace[i].target = Surface)
            /\ trace[i].pre # None =>
                 /\ trace[i].target = trace[i].pre
                 /\ ~trace[i].acquired
                 /\ ~trace[i].presented

\* One draw went to the surface and one to a redirection texture.
C2_Witness ==
    /\ \E i \in 1 .. Len(trace) : IsDraw(trace[i]) /\ trace[i].pre = None
    /\ \E i \in 1 .. Len(trace) : IsDraw(trace[i]) /\ trace[i].pre \in Handles

\* C3: in the ToTexture(h) state the handle is retained across draws: after
\* render_to_texture(Some(h)) every draw of an uninterrupted run of draws
\* targets h and leaves the redirection state ToTexture(h).
C3_HandleRetained ==
    \A i \in 1 .. Len(trace) : \A j \in 1 .. Len(trace) :
        (/\ i < j
         /\ IsRedirect(trace[i]) /\ trace[i].texture \in Handles
         /\ \A k \in (i + 1) .. j : IsDraw(trace[k]))
        => /\ trace[j].target = trace[i].texture
           /\ trace[j].pre = trace[i].texture
           /\ trace[j].post = trace[i].texture
           /\ (j = Len(trace) => output_texture = trace[i].texture)

\* Three consecutive draws after a redirection.
C3_Witness ==
    \E i \in 1 .. Len(trace) :
        /\ i + 3 <= Len(trace)
        /\ IsRedirect(trace[i]) /\ trace[i].texture \in Handles
        /\ \A k \in (i + 1) .. (i + 3) : IsDraw(trace[k])

\* ------------------------------------------------- claims on the application
IsRenderStep(e) ==
    e.who = "game" /\ e.op \in {"prepare", "begin_scene", "draw_rect", "end_scene", "finalise"}

IsEditorStep(e) == e.who = "editor" \/ e.op = "on_update"

Ops(tr) == [i \in 1 .. Len(tr) |-> tr[i].op]

RenderSteps == Ops(SelectSeq(trace, IsRenderStep))

EditorSteps == Ops(SelectSeq(trace, IsEditorStep))

IsPrefix(s, t) == Len(s) <= Len(t) /\ \A i \in 1 .. Len(s) : s[i] = t[i]

\* system_render has run to its end in the current frame.
RenderReturned == \E i \in 1 .. Len(trace) : trace[i].op = "finalise"

\* Every draw of the frame's loop is done, end_scene has not yet run.
DrawsDone == pc = "end_scene"

IsRendererSubmission(c) == c.by = "renderer"

RendererSubmissions == SelectSeq(queue, IsRendererSubmission)

InGameUpdate ==
    pc \in {"ed_pause", "game_update", "prepare", "begin_scene", "draw_rect",
            "end_scene", "finalise", "ed_restore"}

\* C4: in every editor update the renderer is redirected to the editor's
\* offscreen texture for exactly one nested game update and is back in the
\* ToScreen state before the editor's UI pass and when the update returns; no
\* game draw targets the swap chain and no editor UI draw targets the
\* offscreen texture.
C4_EditorRedirection ==
    app = "editor" =>
        /\ InGameUpdate => output_texture = game_scene_texture_view
        /\ pc \in {"ed_gui", "idle"} => output_texture = None
        /\ IsPrefix(EditorSteps,
                    <<"render_to_texture", "on_update", "render_to_texture", "ui_pass">>)
        /\ pc = "idle" /\ trace # <<>> =>
               EditorSteps = <<"render_to_texture", "on_update", "render_to_texture", "ui_pass">>
        /\ \A i \in 1 .. Len(trace) :
               /\ (IsRenderStep(trace[i]) /\ trace[i].op # "begin_scene")
                      => trace[i].target = game_scene_texture_view
               /\ trace[i].op = "ui_pass"
                      => trace[i].target = Surface /\ trace[i].pre = None
        /\ \A i \in 1 .. Len(queue) :
               /\ queue[i].by = "renderer" => queue[i].target = game_scene_texture_view
               /\ queue[i].by = "editor" => queue[i].target = Surface

\* An editor update with two game draws has returned.
C4_Witness ==
    /\ app = "editor"
    /\ pc = "idle"
    /\ frames >= 2
    /\ Len(world) = 2
    /\ \E i \in 1 .. Len(trace) : trace[i].op = "ui_pass"
    /\ Cardinality({i \in 1 .. Len(trace) : IsDraw(trace[i])}) = 2

\* The geometry the frame's renderer submissions carry, in submission order.
RECURSIVE FrameVertices(_)
FrameVertices(q) ==
    IF q = <<>> THEN <<>>
    ELSE IF Head(q).by = "renderer" THEN Head(q).vertices \o FrameVertices(Tail(q))
    ELSE FrameVertices(Tail(q))

RECURSIVE FrameIndices(_)
FrameIndices(q) ==
    IF q = <<>> THEN <<>>
    ELSE IF Head(q).by = "renderer" THEN Head(q).indices \o FrameIndices(Tail(q))
    ELSE FrameIndices(Tail(q))

\* C5: drawing N rects into one scene batch produces exactly 4N vertices and
\* 6N indices, rect k contributing the pattern {0,1,2},{0,2,3} offset by
\* 4(k-1), so that every index lies in [0, 4N).
C5_BatchGeometry ==
    DrawsDone =>
        LET n == Len(world)
            vs == FrameVertices(queue)
            is == FrameIndices(queue)
        IN /\ Len(vs) = 4 * n
           /\ Len(is) = 6 * n
           /\ \A k \in 1 .. n : \A j \in 1 .. 6 :
                  is[6 * (k - 1) + j] = INDICES[j] + 4 * (k - 1)
           /\ \A i \in 1 .. Len(is) : 0 <= is[i] /\ is[i] < 4 * n

\* C6: one frame of scene rendering with N draw-rect requests results in
\* exactly one GPU queue submission, which contains the geometry of all N
\* rects.
C6_OneSubmissionPerFrame ==
    /\ DrawsDone => Len(RendererSubmissions) <= 1
    /\ RenderReturned =>
        /\ Len(RendererSubmissions) = 1
        /\ Len(RendererSubmissions[1].indices) = 6 * Len(world)
        /\ Len(RendererSubmissions[1].vertices) = 4 * Len(world)

\* The colour paint order gives pixel p after the first n entities of w are
\* drawn: that of the last rect covering p, the clear colour if none does.
PaintOrder(w, n, p) ==
    LET ks == {k \in 1 .. n : p \in Covers(RectOf(w[k]))}
    IN IF ks = {} THEN ClearColor ELSE w[Max(ks)].color

\* C7: within one frame draw order is paint order: after the draws the output
\* shows, at every pixel, the last drawn rect that covers it and the clear
\* colour where none does; an earlier rect is erased by a later draw only
\* where the later rect overlaps it.
C7_PaintOrder ==
    (DrawsDone /\ Len(world) > 0) =>
        \A p \in Pixels : image[render_ctx.target][p] = PaintOrder(world, Len(world), p)

\* C8: when the geometry accumulated in a frame exceeds the capacity of the
\* vertex or index buffer (sized for one rect at first), the buffer is grown
\* to at least the needed size, and every accumulated vertex and index is in
\* the GPU buffer: none truncated, none overwritten.
C8_BuffersGrown ==
    DrawsDone =>
        LET vs == FrameVertices(queue)
            is == FrameIndices(queue)
        IN /\ Len(vertex_buffer) >= Len(vs)
           /\ Len(index_buffer) >= Len(is)
           /\ \A i \in 1 .. Len(vs) : i <= Len(vertex_buffer) => vertex_buffer[i] = vs[i]
           /\ \A i \in 1 .. Len(is) : i <= Len(index_buffer) => index_buffer[i] = is[i]

\* C9: a frame in which zero rects are drawn still completes
\* begin_scene/end_scene with a valid empty submission: the target is
\* cleared, zero indices are drawn, and the frame does not crash.
C9_EmptyFrame ==
    (Len(world) = 0 /\ trace # <<>>) =>
        /\ pc # "crashed"
        /\ IsPrefix(RenderSteps, <<"prepare", "begin_scene", "end_scene", "finalise">>)
        /\ (\E i \in 1 .. Len(trace) : trace[i].op = "on_update" /\ pc \in {"idle", "ed_restore", "ed_gui"})
               =>
               /\ RenderSteps = <<"prepare", "begin_scene", "end_scene", "finalise">>
               /\ Len(RendererSubmissions) = 1
               /\ RendererSubmissions[1].drawn = 0
               /\ RendererSubmissions[1].indices = <<>>
               /\ RendererSubmissions[1].target = render_ctx.target
               /\ \A p \in Pixels : image[render_ctx.target][p] = ClearColor

\* A frame over an empty world has returned, in the editor.
C9_Witness ==
    /\ Len(world) = 0
    /\ app = "editor"
    /\ pc = "idle"
    /\ RenderReturned
    /\ \A p \in Pixels : image[game_scene_texture_view][p] = ClearColor

\* The order of the render steps of a frame over n rects.
Pattern(n) ==
    <<"prepare", "begin_scene">> \o [i \in 1 .. n |-> "draw_rect"] \o <<"end_scene", "finalise">>

\* Batches open after the first k render steps.
OpenBatches(ops, k) ==
    Cardinality({i \in 1 .. k : ops[i] = "begin_scene"})
        - Cardinality({i \in 1 .. k : ops[i] = "end_scene"})

MathPositions == {R(0), R(100), R(2 ^ 24)}
MathSizes == {R(0), R(1), R(2), R(50)}
MathTransforms ==
    [position : MathPositions \X MathPositions, size : MathSizes \X MathSizes,
     rotation : Degrees]
LocalPoints == {<<R(0), R(0)>>, <<R(1), R(1)>>, <<Q(1, 2), Q(1, 2)>>}
WorldPoints == {<<R(25), R(25)>>, <<R(25), R(-25)>>, <<R(125), R(125)>>}

InitMath ==
    /\ InitCommon
    /\ InitHost
    /\ pc = "math"
    /\ app = "math"
    /\ calc \in [op : {"input"}, t : MathTransforms, local : LocalPoints,
                 world : {<<NaN, NaN>>}, back : {<<NaN, NaN>>},
                 hit : {FALSE}, drawn : {FALSE}]
              \cup [op : {"point"}, t : MathTransforms, local : {<<NaN, NaN>>},
                    world : WorldPoints, back : {<<NaN, NaN>>},
                    hit : {FALSE}, drawn : {FALSE}]
    /\ camera = NoCamera
    /\ state = NoState
    /\ files = NoFiles

\* forward * local_point
MathForward ==
    /\ pc = "math"
    /\ calc.op = "input"
    /\ calc' = [calc EXCEPT !.op = "forward",
                  !.world = xy(MulVec(compute_transformation_matrix(calc.t),
                                      Point(calc.local)))]
    /\ UNCHANGED <<system_wasmer, game_scene_texture, renderer>>
    /\ UNCHANGED <<camera, state, files>>
    /\ UNCHANGED <<output_texture, vertex_buffer, index_buffer, image, queue, trace,
                   pc, app, world, paused, frames, idx, scene, render_ctx>>

\* inverse * (forward * local_point)
MathInverse ==
    /\ pc = "math"
    /\ calc.op = "forward"
    /\ calc' = [calc EXCEPT !.op = "inverse",
                  !.back = xy(MulVec(compute_inverse_transformation_matrix(calc.t),
                                     Point(calc.world)))]
    /\ UNCHANGED <<system_wasmer, game_scene_texture, renderer>>
    /\ UNCHANGED <<camera, state, files>>
    /\ UNCHANGED <<output_texture, vertex_buffer, index_buffer, image, queue, trace,
                   pc, app, world, paused, frames, idx, scene, render_ctx>>

\* A world point against an entity: the hit test of picking, and the quad
\* system_render draws for the entity's Transform.
MathCompare ==
    /\ pc = "math"
    /\ calc.op = "point"
    /\ calc' = [calc EXCEPT
                  !.op = "compare",
                  !.hit = HitTest(calc.t, calc.world),
                  !.drawn = InQuad(scale_rotation_translation(
                                       [position |-> calc.t.position,
                                        scale |-> calc.t.size,
                                        rotation_degrees |-> calc.t.rotation]),
                                   calc.world)]
    /\ UNCHANGED <<system_wasmer, game_scene_texture, renderer>>
    /\ UNCHANGED <<camera, state, files>>
    /\ UNCHANGED <<output_texture, vertex_buffer, index_buffer, image, queue, trace,
                   pc, app, world, paused, frames, idx, scene, render_ctx>>

NextMath == MathForward \/ MathInverse \/ MathCompare

SpecMath == InitMath /\ [][NextMath]_vars

\* ------------------------------------------------------- client of the Camera
\* Viewport sizes a camera is created with or resized to.
CameraDims == {<<800, 600>>, <<600, 800>>, <<1, 1>>}

InitCamera ==
    /\ InitCommon
    /\ InitHost
    /\ pc = "camera"
    /\ app = "camera"
    /\ calc = NoCalc
    /\ \E d \in CameraDims : camera = Camera_new(d[1], d[2])
    /\ state = NoState
    /\ files = NoFiles

\* camera.resize(width, height); trace keeps the sizes asked for.
CameraResize ==
    /\ pc = "camera"
    /\ Len(trace) < MaxOps
    /\ \E d \in CameraDims :
         /\ camera' = Camera_resize(camera, d[1], d[2])
         /\ trace' = Append(trace, [op |-> "resize", width |-> d[1], height |-> d[2]])
    /\ calc' = NoCalc
    /\ UNCHANGED <<system_wasmer, game_scene_texture, renderer>>
    /\ UNCHANGED <<state, files>>
    /\ UNCHANGED <<output_texture, vertex_buffer, index_buffer, image, queue, pc, app,
                   world, paused, frames, idx, scene, render_ctx>>

\* camera.get_view(): &self, the result goes to the caller.
CameraGetView ==
    /\ pc = "camera"
    /\ calc' = [op |-> "get_view", out |-> get_view(camera)]
    /\ UNCHANGED <<system_wasmer, game_scene_texture, renderer>>
    /\ UNCHANGED <<camera, state, files>>
    /\ UNCHANGED <<output_texture, vertex_buffer, index_buffer, image, queue, trace,
                   pc, app, world, paused, frames, idx, scene, render_ctx>>

\* camera.get_projection(): &self, the result goes to the caller.
CameraGetProjection ==
    /\ pc = "camera"
    /\ calc' = [op |-> "get_projection", out |-> get_projection(camera)]
    /\ UNCHANGED <<system_wasmer, game_scene_texture, renderer>>
    /\ UNCHANGED <<camera, state, files>>
    /\ UNCHANGED <<output_texture, vertex_buffer, index_buffer, image, queue, trace,
                   pc, app, world, paused, frames, idx, scene, render_ctx>>

NextCamera == CameraResize \/ CameraGetView \/ CameraGetProjection

SpecCamera == InitCamera /\ [][NextCamera]_vars

\* ------------------------------------------------------ picking in the editor
\* Transforms of the entities in the scene: two positions that make squares
\* overlap, a size with a zero component.
PickTransforms ==
    [position : {<<R(100), R(100)>>, <<R(120), R(120)>>},
     size : {<<R(50), R(50)>>, <<R(0), R(50)>>},
     rotation : {0}]
PickEntities ==
    [tag : {<<"a">>}, transform : PickTransforms, color : {Red}, script : {NoScript}]
PickWorlds == {SpawnAll(<<>>, es) : es \in SeqsUpTo(PickEntities, MaxEntities)}

\* Window pixels of the pointer over the scene image.
Pointers == {<<R(125), R(125)>>, <<R(325), R(275)>>, <<R(310), R(290)>>, <<R(360), R(240)>>}
NoPointer == <<R(0), R(0)>>

PickInputs(w) ==
    {Input("none", FALSE, NoPointer, NoEntity, <<>>)}
    \cup {Input(k, TRUE, p, NoEntity, <<>>) : k \in {"none", "primary"}, p \in Pointers}
    \cup {Input("hierarchy", FALSE, NoPointer, w[i].id, <<>>) : i \in 1 .. Len(w)}

InitPick ==
    /\ InitCommon
    /\ InitHost
    /\ pc = "gui"
    /\ app = "editor"
    /\ calc = NoCalc
    /\ camera = Camera_new(SceneSize[1], SceneSize[2])
    /\ state = EditorState_default
    /\ files = NoFiles

\* Editor::on_start: the scene is loaded into the game's world.
PickOnStart ==
    /\ pc = "gui"
    /\ trace = <<>>
    /\ world = <<>>
    /\ world' \in PickWorlds \ {<<>>}
    /\ UNCHANGED <<system_wasmer, game_scene_texture, renderer>>
    /\ UNCHANGED <<calc, camera, state, files>>
    /\ UNCHANGED <<output_texture, vertex_buffer, index_buffer, image, queue, trace,
                   pc, app, paused, frames, idx, scene, render_ctx>>

\* One update of the editor GUI with the pointer moving, clicking on the scene
\* image or clicking in the hierarchy; trace keeps the input of the update.
GuiPick ==
    /\ pc = "gui"
    /\ \E in \in PickInputs(world) :
         \E u \in {update(world, state, camera, game_scene_texture, files, in)} :
            /\ world' = u.world
            /\ state' = u.state
            /\ camera' = u.camera
            /\ game_scene_texture' = u.texture
            /\ files' = u.files
            /\ pc' = IF u.ok THEN pc ELSE "crashed"
            /\ trace' = <<in>>
    /\ UNCHANGED <<system_wasmer, renderer>>
    /\ UNCHANGED calc
    /\ UNCHANGED <<output_texture, vertex_buffer, index_buffer, image, queue, app,
                   paused, frames, idx, scene, render_ctx>>

NextPick == PickOnStart \/ GuiPick

SpecPick == InitPick /\ [][NextPick]_vars

\* ------------------------------------------------- saving and loading scenes
\* Tags the tag field of the properties panel is edited to.
SceneTags == {<<>>, <<"a">>, <<Blank, "a">>, <<"a", Blank>>}

\* An entity at (100, 100) of size (50, 50), not rotated.
ScenarioTransform ==
    [position |-> <<R(100), R(100)>>, size |-> <<R(50), R(50)>>, rotation |-> 0]

\* The scene file a first run finds: none, or one saved earlier with a
\* scripted entity in it.
ScriptedScene ==
    editor_state(spawn(<<>>, <<"a">>, ScenarioTransform, Red, <<"s">>))

SceneInputs(w) ==
    {Input(k, FALSE, NoPointer, NoEntity, <<>>) : k \in {"save", "build", "save_build"}}
    \cup {Input("hierarchy", FALSE, NoPointer, w[i].id, <<>>) : i \in 1 .. Len(w)}
    \cup {Input("edit_tag", FALSE, NoPointer, NoEntity, t) : t \in SceneTags}
    \cup {Input("secondary", TRUE, <<R(325), R(275)>>, NoEntity, <<>>) : i \in {1}}

InitScene ==
    /\ InitCommon
    /\ InitHost
    /\ pc = "on_start"
    /\ app = "editor"
    /\ calc = NoCalc
    /\ camera = Camera_new(SceneSize[1], SceneSize[2])
    /\ state = EditorState_default
    /\ files \in [alpha : {NoFile, ScriptedScene}, ini : {NoFile}]

\* Editor::on_start: game.on_start(Some("alpha_game.alpha")), game.pause(true).
SceneOnStart ==
    /\ pc = "on_start"
    /\ LET loaded == on_start(files.alpha)
       IN /\ pc' = IF loaded.ok THEN "gui" ELSE "crashed"
          /\ world' = loaded.world
    /\ paused' = TRUE
    /\ UNCHANGED <<system_wasmer, game_scene_texture, renderer>>
    /\ UNCHANGED <<calc, camera, state, files>>
    /\ UNCHANGED <<output_texture, vertex_buffer, index_buffer, image, queue, trace,
                   app, frames, idx, scene, render_ctx>>

\* One update of the editor GUI (gui.rs) with the user editing the scene,
\* saving or building; frames counts the updates of all runs.
GuiScene ==
    /\ pc = "gui"
    /\ frames < MaxFrames
    /\ \E in \in SceneInputs(world) :
         \E u \in {update(world, state, camera, game_scene_texture, files, in)} :
            /\ in.kind = "secondary" => Len(world) < MaxEntities
            /\ world' = u.world
            /\ state' = u.state
            /\ camera' = u.camera
            /\ game_scene_texture' = u.texture
            /\ files' = u.files
            /\ pc' = IF u.ok THEN pc ELSE "crashed"
            /\ trace' = <<in>>
    /\ frames' = frames + 1
    /\ UNCHANGED <<system_wasmer, renderer>>
    /\ UNCHANGED calc
    /\ UNCHANGED <<output_texture, vertex_buffer, index_buffer, image, queue, app,
                   paused, idx, scene, render_ctx>>

\* Editor::on_update (editor.rs), its toolbar and its tail: Save writes the
\* first rect to alpha_game.alpha, then Build copies the file to
\* alpha_game.ini; game.rects[0] panics in an empty world and fs::copy
\* panics when there is no scene file.
EditorToolbar ==
    /\ pc = "gui"
    /\ frames < MaxFrames
    /\ \E k \in {"toolbar_save", "toolbar_build", "toolbar_save_build"} :
         \E saved \in {IF k # "toolbar_build" /\ world # <<>>
                        THEN [files EXCEPT !.alpha = editor_rs_state(world)]
                        ELSE files} :
            /\ trace' = <<Input(k, FALSE, NoPointer, NoEntity, <<>>)>>
            /\ IF \/ k # "toolbar_build" /\ world = <<>>
                  \/ k # "toolbar_save" /\ saved.alpha = NoFile
               THEN pc' = "crashed" /\ UNCHANGED <<files, state>>
               ELSE /\ files' = IF k # "toolbar_save"
                                 THEN [saved EXCEPT !.ini = saved.alpha] ELSE saved
                    /\ state' = [state EXCEPT
                           !.save_requested = FALSE,
                           !.build_requested = FALSE,
                           !.changed_since_last_save = @ /\ k = "toolbar_build"]
                    /\ pc' = pc
    /\ frames' = frames + 1
    /\ UNCHANGED <<system_wasmer, game_scene_texture, renderer>>
    /\ UNCHANGED <<calc, camera>>
    /\ UNCHANGED <<output_texture, vertex_buffer, index_buffer, image, queue, app,
                   world, paused, idx, scene, render_ctx>>

\* The editor is closed and started again: a new Game with an empty world and
\* a default EditorState; the files stay.
Restart ==
    /\ pc = "gui"
    /\ trace # <<>>
    /\ pc' = "on_start"
    /\ world' = <<>>
    /\ state' = EditorState_default
    /\ trace' = <<>>
    /\ UNCHANGED <<system_wasmer, game_scene_texture, renderer>>
    /\ UNCHANGED <<calc, camera, files>>
    /\ UNCHANGED <<output_texture, vertex_buffer, index_buffer, image, queue, app,
                   paused, frames, idx, scene, render_ctx>>

NextScene == SceneOnStart \/ GuiScene \/ EditorToolbar \/ Restart

SpecScene == InitScene /\ [][NextScene]_vars

\* ------------------------------------------------------ reading scene files
MaxPieces == 3          \* pieces a scene file is put together from

\* A record as the editor's save writes it: the tag line, the transform
\* line, the colour line, the script line if any, and the delimiter line.
Record(tag, transform, color, script) ==
    Concat(<<tag, <<NL>>, transform, <<NL>>, color,
             IF script # NoScript THEN <<NL>> \o script ELSE <<>>,
             <<NL, Dash, Dash, Dash, NL>> >>)

GoodTransform == <<"100", Blank, "100", Blank, "50", Blank, "50", Blank, "0">>
GoodColor == <<"1", Blank, "0", Blank, "0", Blank, "1">>
Plain == Record(<<"a">>, GoodTransform, GoodColor, NoScript)
Scripted == Record(<<"b">>, GoodTransform, GoodColor, <<"s">>)
Delimiter == <<Dash, Dash, Dash, NL>>
\* Malformed records: a field that is no number, a field too few, a field
\* too many.
NotNumeric == Record(<<"a">>, <<"x">> \o Tail(GoodTransform), GoodColor, NoScript)
TooFew == Record(<<"a">>, SubSeq(GoodTransform, 1, 7), GoodColor, NoScript)
TooMany == Record(<<"a">>, GoodTransform \o <<Blank, "0">>, GoodColor, NoScript)

WellFormed == {Plain, Scripted}
Malformed == {NotNumeric, TooFew, TooMany}
LoadPieces == WellFormed \cup Malformed \cup {Delimiter}

\* The editor starts with a scene file made of the pieces in calc.
InitLoad ==
    /\ InitCommon
    /\ InitHost
    /\ pc = "on_start"
    /\ app = "editor"
    /\ camera = Camera_new(SceneSize[1], SceneSize[2])
    /\ state = EditorState_default
    /\ \E pieces \in SeqsUpTo(LoadPieces, MaxPieces) :
         /\ calc = [op |-> "file", pieces |-> pieces]
         /\ files = [alpha |-> Concat(pieces), ini |-> NoFile]

NextLoad == SceneOnStart

SpecLoad == InitLoad /\ [][NextLoad]_vars

\* ------------------------------------------------------------ Engine::run
\* The applications: the Game and the Editor run by the event-loop engine
\* (engine.rs), and the Game and the Editor of lib.rs run by its engine,
\* which makes a fixed number of updates.
RunApps == {"game", "editor", "lib_game", "lib_editor"}
IsEditor(a) == a \in {"editor", "lib_editor"}
EventLoop(a) == a \in {"game", "editor"}
RunFrames == 5

WindowSizes == {<<0, 600>>, <<800, 0>>, <<400, 300>>}
ScaleFactors == {1, 2}
PanelSizes == {<<R(400), R(300)>>, <<R(800), R(600)>>}

NoEvent == [kind |-> "none", width |-> 0, height |-> 0, scale_factor |-> 0,
            size |-> <<R(0), R(0)>>]
Resized(size, sf) == [NoEvent EXCEPT !.kind = "Resized", !.width = size[1],
                                     !.height = size[2], !.scale_factor = sf]
MainEventsCleared(size, sf) ==
    [NoEvent EXCEPT !.kind = "MainEventsCleared", !.size = size, !.scale_factor = sf]

\* calc holds the event of the iteration and how often on_start and on_stop
\* were called so far, on the application and on the game inside the editor.
NoCalls == [op |-> "run", event |-> NoEvent, on_start |-> 0, on_stop |-> 0,
            nested_on_start |-> 0, nested_on_stop |-> 0]

\* Editor::on_start and Editor::on_stop forward to the game.
Application_on_start(a) ==
    IF IsEditor(a) THEN <<CallEv("on_start", "editor"), CallEv("on_start", "game")>>
    ELSE <<CallEv("on_start", "game")>>

Application_on_stop_NotForwarded(a) ==
    IF IsEditor(a) THEN <<CallEv("on_stop", "editor")>> ELSE <<CallEv("on_stop", "game")>>

Application_on_stop(a) ==
    IF IsEditor(a) THEN <<CallEv("on_stop", "game"), CallEv("on_stop", "editor")>>
    ELSE <<CallEv("on_stop", "game")>>

Application_on_update(a) ==
    IF IsEditor(a) THEN <<CallEv("on_update", "editor"), CallEv("on_update", "game")>>
    ELSE <<CallEv("on_update", "game")>>

Application_on_event(a) ==
    <<CallEv("on_event", IF IsEditor(a) THEN "editor" ELSE "game")>>

CallsOf(tr, op, who) == Cardinality({i \in 1 .. Len(tr) : tr[i].op = op /\ tr[i].who = who})
TopOf(a) == IF IsEditor(a) THEN "editor" ELSE "game"
Counted(c, tr, a, ev) ==
    [c EXCEPT !.event = ev,
              !.on_start = @ + CallsOf(tr, "on_start", TopOf(a)),
              !.on_stop = @ + CallsOf(tr, "on_stop", TopOf(a)),
              !.nested_on_start = @ + IF IsEditor(a) THEN CallsOf(tr, "on_start", "game") ELSE 0,
              !.nested_on_stop = @ + IF IsEditor(a) THEN CallsOf(tr, "on_stop", "game") ELSE 0]

InitRun ==
    /\ InitCommon
    /\ InitHost
    /\ pc = "created"
    /\ app \in RunApps
    /\ calc = NoCalls
    /\ camera = Camera_new(SceneSize[1], SceneSize[2])
    /\ state = [EditorState_default EXCEPT !.window_resized = TRUE]
    /\ files = NoFiles

\* Engine::run: app.on_start(), before the loop.
RunStart ==
    /\ pc = "created"
    /\ trace' = Application_on_start(app)
    /\ calc' = Counted(calc, Application_on_start(app), app, NoEvent)
    /\ paused' = IsEditor(app)
    /\ pc' = "polling"
    /\ UNCHANGED <<system_wasmer, game_scene_texture, renderer, camera, state, files>>
    /\ UNCHANGED <<output_texture, vertex_buffer, index_buffer, image, queue, app,
                   world, frames, idx, scene, render_ctx>>

\* engine.rs, the closure on a WindowEvent::Resized: renderer.resize, then
\* app.on_event; the game resizes its camera, the editor notes the resize.
RunResized ==
    /\ pc \in {"polling", "quit"}
    /\ EventLoop(app)
    /\ \E size \in WindowSizes, sf \in ScaleFactors :
         /\ renderer' = Renderer_resize(renderer, size[1], size[2], sf)
         /\ calc' = Counted(calc, Application_on_event(app), app, Resized(size, sf))
         /\ camera' = IF app = "game" THEN Camera_resize(camera, size[1], size[2])
                      ELSE camera
    /\ state' = IF app = "editor" THEN [state EXCEPT !.window_resized = TRUE] ELSE state
    /\ trace' = Application_on_event(app)
    /\ UNCHANGED <<system_wasmer, game_scene_texture, files>>
    /\ UNCHANGED <<output_texture, vertex_buffer, index_buffer, image, queue, pc, app,
                   world, paused, frames, idx, scene, render_ctx>>

\* engine.rs, the closure on any other event before MainEventsCleared:
\* app.on_event; a close request makes input.quit() true.
RunEvent ==
    /\ pc \in {"polling", "quit"}
    /\ EventLoop(app)
    /\ \E close \in BOOLEAN :
         /\ pc' = IF close THEN "quit" ELSE pc
         /\ calc' = Counted(calc, Application_on_event(app), app,
                            [NoEvent EXCEPT !.kind = IF close THEN "CloseRequested"
                                                     ELSE "Other"])
    /\ trace' = Application_on_event(app)
    /\ renderer' = [renderer EXCEPT !.configured = FALSE]
    /\ UNCHANGED <<system_wasmer, game_scene_texture, camera, state, files>>
    /\ UNCHANGED <<output_texture, vertex_buffer, index_buffer, image, queue, app,
                   world, paused, frames, idx, scene, render_ctx>>

\* engine.rs, the closure on MainEventsCleared without a quit: app.on_event,
\* then app.on_update. The editor pauses or plays the game, updates it and
\* runs its GUI, which handles a resize.
RunUpdate ==
    /\ pc = "polling"
    /\ EventLoop(app)
    /\ frames < MaxFrames
    /\ \E size \in PanelSizes, sf \in ScaleFactors :
         \E u \in {update(world, state, camera, game_scene_texture, files,
                          [Input("none", FALSE, NoPointer, NoEntity, <<>>)
                             EXCEPT !.size = size, !.scale_factor = R(sf)])} :
            /\ calc' = Counted(calc, <<>>, app, MainEventsCleared(size, sf))
            /\ camera' = IF app = "editor" THEN u.camera ELSE camera
            /\ game_scene_texture' = IF app = "editor" THEN u.texture
                                     ELSE game_scene_texture
            /\ state' = IF app = "editor" THEN u.state ELSE state
    /\ trace' = Application_on_event(app) \o Application_on_update(app)
    /\ paused' = IF app = "editor" THEN ~play_game(frames) ELSE paused
    /\ frames' = frames + 1
    /\ renderer' = [renderer EXCEPT !.configured = FALSE]
    /\ UNCHANGED <<system_wasmer, files>>
    /\ UNCHANGED <<output_texture, vertex_buffer, index_buffer, image, queue, pc, app,
                   world, idx, scene, render_ctx>>

\* engine.rs, the closure on MainEventsCleared with input.quit(): app.on_event,
\* control_flow = Exit, app.on_stop, return.
RunQuit ==
    /\ pc = "quit"
    /\ trace' = Application_on_event(app) \o Application_on_stop(app)
    /\ calc' = Counted(calc, Application_on_stop(app), app,
                       [NoEvent EXCEPT !.kind = "MainEventsCleared"])
    /\ pc' = "exited"
    /\ renderer' = [renderer EXCEPT !.configured = FALSE]
    /\ UNCHANGED <<system_wasmer, game_scene_texture, camera, state, files>>
    /\ UNCHANGED <<output_texture, vertex_buffer, index_buffer, image, queue, app,
                   world, paused, frames, idx, scene, render_ctx>>

\* engine.rs, the closure on LoopDestroyed, the one event after Exit:
\* app.on_event; input.update has not processed all events.
RunDestroyed ==
    /\ pc = "exited"
    /\ EventLoop(app)
    /\ trace' = Application_on_event(app)
    /\ calc' = Counted(calc, <<>>, app, [NoEvent EXCEPT !.kind = "LoopDestroyed"])
    /\ pc' = "destroyed"
    /\ UNCHANGED <<system_wasmer, game_scene_texture, renderer, camera, state, files>>
    /\ UNCHANGED <<output_texture, vertex_buffer, index_buffer, image, queue, app,
                   world, paused, frames, idx, scene, render_ctx>>

\* lib.rs Engine::run, one turn of `while self.frames < 5`: app.on_update.
LibUpdate ==
    /\ pc = "polling"
    /\ ~EventLoop(app)
    /\ frames < RunFrames
    /\ trace' = Application_on_update(app)
    /\ calc' = Counted(calc, <<>>, app, NoEvent)
    /\ paused' = IF IsEditor(app) THEN ~play_game(frames) ELSE paused
    /\ frames' = frames + 1
    /\ UNCHANGED <<system_wasmer, game_scene_texture, renderer, camera, state, files>>
    /\ UNCHANGED <<output_texture, vertex_buffer, index_buffer, image, queue, pc, app,
                   world, idx, scene, render_ctx>>

\* lib.rs Engine::run, after the loop: app.on_stop.
LibStop ==
    /\ pc = "polling"
    /\ ~EventLoop(app)
    /\ frames >= RunFrames
    /\ trace' = Application_on_stop(app)
    /\ calc' = Counted(calc, Application_on_stop(app), app, NoEvent)
    /\ pc' = "exited"
    /\ UNCHANGED <<system_wasmer, game_scene_texture, renderer, camera, state, files>>
    /\ UNCHANGED <<output_texture, vertex_buffer, index_buffer, image, queue, app,
                   world, paused, frames, idx, scene, render_ctx>>

NextRun ==
    \/ RunStart
    \/ RunResized
    \/ RunEvent
    \/ RunUpdate
    \/ RunQuit
    \/ RunDestroyed
    \/ LibUpdate
    \/ LibStop

SpecRun == InitRun /\ [][NextRun]_vars

\* ------------------------------------------- claims on the transform functions
Tolerance == Q(1, 10000)
Within(p, q) ==
    \A i \in 1 .. 2 : IsFinite(p[i]) /\ Le(Abs(Sub(p[i], q[i])), Tolerance)
NonzeroSize(t) == t.size[1].n # 0 /\ t.size[2].n # 0

\* The positions at which position + size * local is computed by f32 without
\* rounding.
ExactPositions == {R(0), R(100)}

C12_ProjectionOfLastResize ==
    Len(trace) > 0 =>
        LET last == trace[Len(trace)]
        IN get_projection(camera) = get_projection(Camera_new(last.width, last.height))

\* A camera created for 800x600 has been resized twice, to different sizes,
\* and its projection has been read.
C12_Witness ==
    /\ Len(trace) = 2
    /\ trace[1].width = 1
    /\ trace[2].width = 600 /\ trace[2].height = 800
    /\ calc.op = "get_projection"
    /\ calc.out = get_projection(Camera_new(600, 800))
    /\ calc.out # get_projection(Camera_new(800, 600))

\* C13: Camera::resize changes only the projection and the stored width and
\* height: the stored view and the matrix get_view() returns are the same
\* before and after; get_view() and get_projection() leave the camera as it
\* was.
C13_ResizeKeepsView ==
    [][/\ get_view(camera') = get_view(camera)
       /\ camera'.view = camera.view
       /\ (trace' = trace) => (camera' = camera)]_vars

\* The view has been read after a resize that changed the projection.
C13_Witness ==
    /\ Len(trace) > 0
    /\ calc.op = "get_view"
    /\ calc.out = from_translation(R(200), R(200))
    /\ camera.projection # get_projection(Camera_new(800, 600))
    /\ camera.view = IDENTITY

\* -------------------------------------------------------- claims on picking
LastInput == trace[1]
Clicked == trace # <<>> /\ LastInput.kind = "primary"
HitBy(w, point) == {i \in 1 .. Len(w) : HitTest(w[i].transform, point)}

\* C14: picking is topmost-wins: after a primary click on a world point
\* inside the bounds of one or more entities, the active entity is the one of
\* them that comes last in the iteration order (the one drawn last).
C14_TopmostWins ==
    Clicked =>
        LET hits == HitBy(world, state.mouse_world_pos)
        IN hits # {} => state.active_entity = world[Max(hits)].id

\* Entity A at (100,100) and entity B at (120,120), both 50 wide, A first; the
\* click landed on world point (125,125), inside both, and picked B.
C14_Witness ==
    /\ Clicked
    /\ Len(world) = 2
    /\ world[1].transform = [position |-> <<R(100), R(100)>>, size |-> <<R(50), R(50)>>,
                             rotation |-> 0]
    /\ world[2].transform = [position |-> <<R(120), R(120)>>, size |-> <<R(50), R(50)>>,
                             rotation |-> 0]
    /\ state.mouse_world_pos = <<R(125), R(125)>>
    /\ HitBy(world, state.mouse_world_pos) = {1, 2}
    /\ state.active_entity = world[2].id

\* The entity of the scenario: position (100,100), size (50,50), rotation 0.
LocalOf(transform, point) ==
    xy(MulVec(compute_inverse_transformation_matrix(transform), Point(point)))
Hovered == trace # <<>> /\ LastInput.hover

\* C15: with Camera(800,600) and an 800x600 viewport at the window origin, a
\* pointer at window pixel (x, y) is mapped to the world point
\* (x - 200, 400 - y): the Y axis is inverted and the view's look-at moves the
\* origin by 200. The pointer at (125,125) gives (-75,275), local (-3.5,3.5)
\* of the entity at (100,100) with size (50,50), which is not hit; the pointer
\* at (325,275) gives (125,125), local (0.5,0.5), and a click there picks an
\* entity under it.
C15_PointerToWorld ==
    Hovered =>
        /\ state.mouse_world_pos = <<Sub(LastInput.pos[1], R(200)),
                                     Sub(R(400), LastInput.pos[2])>>
        /\ LastInput.pos = <<R(125), R(125)>> =>
              /\ LocalOf(ScenarioTransform, state.mouse_world_pos) = <<Q(-7, 2), Q(7, 2)>>
              /\ HitBy(world, state.mouse_world_pos) = {}
        /\ LastInput.pos = <<R(325), R(275)>> =>
              /\ LocalOf(ScenarioTransform, state.mouse_world_pos) = <<Q(1, 2), Q(1, 2)>>
              /\ (Clicked /\ \E i \in 1 .. Len(world) : world[i].transform = ScenarioTransform)
                    => state.active_entity \in {world[i].id : i \in HitBy(world, state.mouse_world_pos)}

\* The scenario's entity alone in the world, clicked at (325,275) and picked.
C15_Witness ==
    /\ Clicked
    /\ LastInput.pos = <<R(325), R(275)>>
    /\ Len(world) = 1
    /\ world[1].transform = ScenarioTransform
    /\ state.mouse_window_pos = <<R(325), R(275)>>
    /\ state.mouse_world_pos = <<R(125), R(125)>>
    /\ state.active_entity = world[1].id

\* C15 as stated: the click at window pixel (125,125) hits the entity at
\* (100,100) with size (50,50).
C15_ScenarioHit ==
    (/\ Clicked
     /\ LastInput.pos = <<R(125), R(125)>>
     /\ Len(world) = 1
     /\ world[1].transform = ScenarioTransform)
    => /\ IsHit(LocalOf(ScenarioTransform, state.mouse_world_pos))
       /\ state.active_entity = world[1].id

Positions(st) == <<st.mouse_window_pos, st.mouse_viewport_pos, st.mouse_world_pos>>
PointerOutside == trace' # <<>> /\ ~trace'[1].hover

\* C16: during an update with the pointer outside the scene viewport the
\* stored window, viewport and world mouse positions keep the values of the
\* previous update and no entity is picked: the active entity changes only
\* when the user clicks the button of an entity in the hierarchy panel, and
\* then to that entity.
C16_StaleRetained ==
    [][PointerOutside =>
         /\ Positions(state') = Positions(state)
         /\ state'.active_entity # state.active_entity =>
               /\ trace'[1].kind = "hierarchy"
               /\ state'.active_entity = trace'[1].entity]_vars

\* After the pointer hovered the scene, an update with the pointer over the
\* hierarchy has kept the world position and changed the active entity.
C16_Witness ==
    /\ trace # <<>>
    /\ ~LastInput.hover
    /\ LastInput.kind = "hierarchy"
    /\ state.mouse_world_pos = <<R(125), R(125)>>
    /\ state.mouse_window_pos = <<R(325), R(275)>>
    /\ state.active_entity = LastInput.entity

\* C16 as stated: the active entity too is left as it was.
C16_ActiveRetained ==
    [][PointerOutside =>
         /\ Positions(state') = Positions(state)
         /\ state'.active_entity = state.active_entity]_vars

ZeroSize(e) == e.transform.size[1].n = 0 \/ e.transform.size[2].n = 0

\* C17: an entity whose Transform has a zero size component is never selected
\* by a click, the hit test does not crash, and the click selects the last
\* entity hit among the others as if the zero-size entities were not there.
C17_ZeroSizeSkipped ==
    [][(trace' # <<>> /\ trace'[1].kind = "primary") =>
         /\ pc' # "crashed"
         /\ \A i \in 1 .. Len(world) :
               (ZeroSize(world[i]) /\ state'.active_entity = world[i].id)
                 => state.active_entity = world[i].id
         /\ state'.active_entity =
               Pick(SelectSeq(world, LAMBDA e : ~ZeroSize(e)),
                    state'.mouse_world_pos, state.active_entity)]_vars

\* A square and, after it in iteration order, an entity of zero width at the
\* same position; the click on (125,125) picked the square.
C17_Witness ==
    /\ Clicked
    /\ Len(world) = 2
    /\ world[1].transform = ScenarioTransform
    /\ world[2].transform = [ScenarioTransform EXCEPT !.size = <<R(0), R(50)>>]
    /\ state.mouse_world_pos = <<R(125), R(125)>>
    /\ IsNaN(LocalOf(world[2].transform, state.mouse_world_pos)[1])
    /\ state.active_entity = world[1].id

\* C18: the renderer and the picking inverse use the same rotation
\* convention: for every entity with nonzero size and every rotation, a world
\* point is a hit of the picking inverse exactly when it lies inside the quad
\* the renderer's forward model matrix draws for the entity.
C18_SameConvention ==
    (calc.op = "compare" /\ NonzeroSize(calc.t)) => (calc.hit <=> calc.drawn)

\* ------------------------------------------------- claims on the scene file
SavedBy(kinds) == trace' # <<>> /\ trace'[1].kind \in kinds /\ pc' # "crashed"

\* C19: saving a scene from the editor GUI and loading the written file
\* reproduces the entities in the same order with identical tag, position,
\* size, rotation, colour and script presence, for every tag the editor
\* allows, the empty tag and tags with leading or trailing blanks included.
C19_SaveLoadRoundTrip ==
    [][SavedBy({"save"}) =>
         LET loaded == on_start(files'.alpha)
         IN loaded.ok /\ Components(loaded.world) = Components(world')]_vars

\* C20: every scene writer of the program writes what Game::on_start reads:
\* a file written by a save of the editor is accepted and spawns one entity
\* per saved record.
C20_WritersMatchReader ==
    [][SavedBy({"save", "toolbar_save"}) =>
         LET loaded == on_start(files'.alpha)
         IN /\ loaded.ok
            /\ Len(loaded.world) = IF trace'[1].kind = "save" THEN Len(world') ELSE 1]_vars

\* ------------------------------------------------- claims on the scene reader
Loaded == pc \in {"gui", "crashed"} /\ calc.op = "file"
Count(pieces, S) == Cardinality({i \in 1 .. Len(pieces) : pieces[i] \in S})

\* C21: a scene file that is empty, or that has delimiter lines with nothing
\* between them besides its well-formed records, loads without failure and
\* spawns exactly its records.
C21_EmptySegmentsSkipped ==
    (Loaded /\ Count(calc.pieces, Malformed) = 0) =>
        pc = "gui" /\ Len(world) = Count(calc.pieces, WellFormed)

\* C22: a scene file with a malformed record (a field that is no number, or
\* a wrong number of fields) fails the whole load, and no entity of the file
\* is in the world, the well-formed records before the malformed one included.
C22_MalformedFailsLoad ==
    (Loaded /\ Count(calc.pieces, Malformed) > 0) => pc = "crashed" /\ world = <<>>

\* ------------------------------------------------- claims on the game update
\* C23: when the script of one entity fails during an unpaused
\* Game::on_update, the scripts of the other entities still run and the
\* update still goes on to system_render.
C23_ScriptFailureIsolated ==
    [][(pc = "game_update" /\ system_wasmer'.failed) =>
          system_wasmer'.started = Scripts(world) /\ pc' = "prepare"]_vars

\* C24: every command buffer submitted to the GPU queue in a frame is
\* submitted by the Renderer, none by the game or the editor.
C24_OnlyRendererSubmits ==
    \A i \in 1 .. Len(queue) : queue[i].by = "renderer"

C28_PlayedInUpdates1And2 ==
    app = "editor" =>
        /\ (pc = "idle" /\ frames = 0) => paused
        /\ pc \in {"game_update", "prepare", "begin_scene", "draw_rect", "end_scene",
                    "finalise"} => (paused <=> frames \notin {1, 2})

C28_Witness ==
    app = "editor" /\ pc = "game_update" /\ frames = 3 /\ paused

\* ------------------------------------------------- claims on save and build
Updated == frames' = frames + 1 /\ pc' # "crashed"

\* C29: at the end of every editor update save_requested and
\* build_requested are both false; a handled save leaves
\* changed_since_last_save false; when both are requested in one update the
\* scene is written before it is copied, so alpha_game.ini is the scene that
\* was just saved.
C29_RequestsHandledInUpdate ==
    [][Updated =>
         /\ ~state'.save_requested /\ ~state'.build_requested
         /\ trace'[1].kind \in {"save", "save_build", "toolbar_save", "toolbar_save_build"}
              => ~state'.changed_since_last_save
         /\ trace'[1].kind = "save_build"
              => files'.alpha = editor_state(world') /\ files'.ini = files'.alpha
         /\ trace'[1].kind = "toolbar_save_build"
              => files'.alpha = editor_rs_state(world') /\ files'.ini = files'.alpha]_vars

C29_Witness ==
    /\ pc = "gui" /\ trace # <<>> /\ trace[1].kind = "save_build"
    /\ files.alpha \notin {NoFile, ScriptedScene}
    /\ files.ini = files.alpha

\* ------------------------------------------------ claims on Engine::run
ThisEvent(kind) == calc'.event.kind = kind

\* C25: after the editor has handled a resize, the camera's width and height
\* and the dimensions of the offscreen texture the game is rendered into are
\* both the scene panel's new size in pixels, the panel's size times the
\* scale factor, for every scale factor.
C25_TextureMatchesPanelPixels ==
    [][(app = "editor" /\ pc = "polling" /\ ThisEvent("MainEventsCleared")
          /\ state.window_resized) =>
         \E px \in {<<as_u32(Mul(calc'.event.size[1], R(calc'.event.scale_factor))),
                       as_u32(Mul(calc'.event.size[2], R(calc'.event.scale_factor)))>>} :
            /\ camera'.width = px[1] /\ camera'.height = px[2]
            /\ game_scene_texture' = px]_vars

\* C26: on_start is called exactly once and before any on_event or
\* on_update; on_stop is called at most once, and once when the run has
\* ended; no on_update comes after on_stop, nor in the iteration of the
\* event loop that saw the quit; the editor forwards on_start and on_stop to
\* its game once each.
C26_LifecycleOrder ==
    [][/\ calc'.on_start = 1 /\ calc'.on_stop <= 1
       /\ (\E i \in 1 .. Len(trace') : trace'[i].op \in {"on_event", "on_update"})
            => calc.on_start = 1
       /\ (\E i \in 1 .. Len(trace') : trace'[i].op = "on_update")
            => calc'.on_stop = 0 /\ pc # "quit"
       /\ pc' \in {"exited", "destroyed"} <=> calc'.on_stop = 1
       /\ IsEditor(app) => /\ calc'.nested_on_start = calc'.on_start
                           /\ calc'.nested_on_stop = calc'.on_stop
       /\ ~IsEditor(app) => calc'.nested_on_start = 0 /\ calc'.nested_on_stop = 0]_vars

C26_Witness ==
    /\ app = "editor" /\ pc = "destroyed" /\ frames >= 1
    /\ calc.on_stop = 1 /\ calc.nested_on_stop = 1

\* C30: Renderer::resize with a width or a height of 0 keeps width, height,
\* scale_factor and the surface configuration and does not configure the
\* surface; with both positive, all of them take the new values and the
\* surface is configured.
C30_ZeroSizeResizeIgnored ==
    [][ThisEvent("Resized") =>
         IF calc'.event.width = 0 \/ calc'.event.height = 0
         THEN /\ renderer'.width = renderer.width
              /\ renderer'.height = renderer.height
              /\ renderer'.scale_factor = renderer.scale_factor
              /\ renderer'.surface_config = renderer.surface_config
              /\ ~renderer'.configured
         ELSE /\ renderer'.width = calc'.event.width
              /\ renderer'.height = calc'.event.height
              /\ renderer'.scale_factor = calc'.event.scale_factor
              /\ renderer'.surface_config = [width |-> calc'.event.width,
                                             height |-> calc'.event.height]
              /\ renderer'.configured]_vars

C30_Witness ==
    /\ calc.op = "run" /\ calc.event.kind = "Resized" /\ calc.event.width = 0
    /\ calc.event.scale_factor = 1
    /\ renderer.width = 400 /\ renderer.scale_factor = 2 /\ ~renderer.configured

====
